---- MODULE Spec2Model ----
(***************************************************************************)
(* A model of doctown: the chunker (src/src/chunking.py), the cluster      *)
(* engine (src/src/clustering.py), the schema engine                       *)
(* (src/src/intent/schema_builder.py), the synthesis orchestrator          *)
(* (src/src/intent/orchestrator.py) and the archive codec                  *)
(* (src/src/docpack.py).                                                   *)
(*                                                                         *)
(* A Python str is a sequence of one-character strings; "NL" stands for    *)
(* the newline character.  None is the empty tuple and a present optional  *)
(* value x is the one-element tuple <<x>>.                                 *)
(***************************************************************************)
EXTENDS Integers, Sequences, FiniteSets, TLC

VARIABLES
    \* split_text_by_tokens called on one text
    text, chunk_size, overlap, split_pc, split_result,
    \* one run of chunk_documents
    vfs, chunker_size, chunker_overlap, chunker_pc, file_idx, text_chunks,
    file_chunks, chunks, chunk_id_counter,
    \* one call of ClusterEngine.cluster_chunks
    cl_chunks, num_clusters, method, cl_pc, clusters,
    \* one DocpackWriter.write to a destination path and one load_docpack of it
    docpack, zip_state, zip_entries, writer_pc, read_result,
    \* one build_model of a schema and one validation of an object by the
    \* model it returns
    fields, instance, model_pc, accepted,
    \* two summarize_project calls: the arguments of each, and what each
    \* hands to the generation capability
    project_args, project_calls,
    \* one apply_intent call: its arguments, its position, the generation
    \* calls it has made and the Docpack it returns
    ai_intent, ai_chunks, ai_clusters, ai_pc, ai_i, ai_calls, ai_docpack,
    \* validate_schema: the value it is given, where the call is, and how it
    \* ended
    vs_schema, vs_pc, vs_result,
    \* run_pipeline, two runs: the intent file both are given, and per run
    \* the source, where the run is, its intent, vfs, chunks, clusters and
    \* manifest, the work it has done and the cluster apply_intent is at
    pl_intent_yaml, pl_source, pl_pc, pl_intent, pl_vfs, pl_chunks,
    pl_clusters, pl_manifest, pl_work, pl_i,
    \* two threads that run _chunk_file on one Chunker: the shared counter,
    \* and per thread its position, the text chunks it has left, the counter
    \* value it has loaded and the ids it has given
    cc_counter, cc_pc, cc_left, cc_tmp, cc_ids,
    \* one ingest call: the source string and how the call ended
    source, ingest_result

splitVars == <<text, chunk_size, overlap, split_pc, split_result>>
chunkerVars == <<vfs, chunker_size, chunker_overlap, chunker_pc, file_idx,
                 text_chunks, file_chunks, chunks, chunk_id_counter>>
clusterVars == <<cl_chunks, num_clusters, method, cl_pc, clusters>>
docpackVars == <<docpack, zip_state, zip_entries, writer_pc, read_result>>
schemaVars == <<fields, instance, model_pc, accepted>>
projectVars == <<project_args, project_calls>>
intentVars ==
    <<ai_intent, ai_chunks, ai_clusters, ai_pc, ai_i, ai_calls, ai_docpack>>
validateVars ==
    <<vs_schema, vs_pc, vs_result>>
pipelineVars ==
    <<pl_intent_yaml, pl_source, pl_pc, pl_intent, pl_vfs, pl_chunks,
      pl_clusters, pl_manifest, pl_work, pl_i>>
raceVars ==
    <<cc_counter, cc_pc, cc_left, cc_tmp, cc_ids>>
ingestVars ==
    <<source, ingest_result>>
vars ==
    <<splitVars, chunkerVars, clusterVars, docpackVars, schemaVars,
      projectVars, intentVars, validateVars, pipelineVars, raceVars,
      ingestVars>>

-----------------------------------------------------------------------------
(* Bounds of the model *)

\* lines of the text handed to split_text_by_tokens
MaxLines == 5
\* largest chunk_size and overlap tried
MaxChunkSize == 3
MaxOverlap == 2
\* files of a virtual file system, and lines summed over its files
MaxFiles == 3
MaxVfsLines == 3
\* largest chunk size of a chunker
MaxChunkerSize == 2
\* chunks handed to cluster_chunks, and the largest num_clusters
MaxChunks == 3
MaxK == 3
\* chunks, and clusters, of an Archive handed to the writer
MaxRecords == 2
\* keys of a schema handed to build_model
MaxFields == 3
\* chunks handed to apply_intent
MaxIntentChunks == 3
\* largest max_chunks_per_cluster of an intent
MaxPerCluster == 2
MaxSourceFiles == 2
MaxScenarioDelta == 3
MaxThreadChunks == 3

\* characters between the head and the tail of a source string
MaxMiddle == 2

-----------------------------------------------------------------------------
(* Each component is run on its own: the variables of the others rest *)

SplitOff ==
    /\ text = <<>> /\ chunk_size = 0 /\ overlap = 0
    /\ split_pc = "off" /\ split_result = <<>>

ChunkerOff ==
    /\ vfs = <<>> /\ chunker_size = 0 /\ chunker_overlap = 0
    /\ chunker_pc = "off" /\ file_idx = 0 /\ text_chunks = <<>>
    /\ file_chunks = <<>> /\ chunks = <<>> /\ chunk_id_counter = 0

ClusterOff ==
    /\ cl_chunks = <<>> /\ num_clusters = 0 /\ method = "off"
    /\ cl_pc = "off" /\ clusters = <<>>

DocpackOff ==
    /\ docpack = <<>> /\ zip_state = "off" /\ zip_entries = <<>>
    /\ writer_pc = "off" /\ read_result = <<>>

SchemaOff ==
    /\ fields = <<>> /\ instance = <<>> /\ model_pc = "off" /\ accepted = FALSE

ProjectOff == project_args = <<>> /\ project_calls = <<>>

IntentOff ==
    /\ ai_intent = <<>> /\ ai_chunks = <<>> /\ ai_clusters = <<>>
    /\ ai_pc = "off" /\ ai_i = 0 /\ ai_calls = <<>> /\ ai_docpack = <<>>

ValidateOff ==
    vs_schema = <<>> /\ vs_pc = "off" /\ vs_result = <<>>

PipelineOff ==
    /\ pl_intent_yaml = <<>> /\ pl_source = <<>> /\ pl_pc = <<>>
    /\ pl_intent = <<>>
    /\ pl_vfs = <<>> /\ pl_chunks = <<>> /\ pl_clusters = <<>>
    /\ pl_manifest = <<>> /\ pl_work = <<>> /\ pl_i = <<>>

RaceOff ==
    /\ cc_counter = 0 /\ cc_pc = <<>> /\ cc_left = <<>>
    /\ cc_tmp = <<>> /\ cc_ids = <<>>

IngestOff ==
    /\ source = <<>> /\ ingest_result = <<>>

OtherThanSplitOff ==
    /\ ChunkerOff /\ ClusterOff /\ DocpackOff /\ SchemaOff
    /\ ProjectOff /\ IntentOff /\ ValidateOff /\ PipelineOff
    /\ RaceOff /\ IngestOff
OtherThanChunkerOff ==
    /\ SplitOff /\ ClusterOff /\ DocpackOff /\ SchemaOff
    /\ ProjectOff /\ IntentOff /\ ValidateOff /\ PipelineOff
    /\ RaceOff /\ IngestOff
OtherThanClusterOff ==
    /\ SplitOff /\ ChunkerOff /\ DocpackOff /\ SchemaOff
    /\ ProjectOff /\ IntentOff /\ ValidateOff /\ PipelineOff
    /\ RaceOff /\ IngestOff
OtherThanDocpackOff ==
    /\ SplitOff /\ ChunkerOff /\ ClusterOff /\ SchemaOff
    /\ ProjectOff /\ IntentOff /\ ValidateOff /\ PipelineOff
    /\ RaceOff /\ IngestOff
OtherThanSchemaOff ==
    /\ SplitOff /\ ChunkerOff /\ ClusterOff /\ DocpackOff
    /\ ProjectOff /\ IntentOff /\ ValidateOff /\ PipelineOff
    /\ RaceOff /\ IngestOff
OtherThanProjectOff ==
    /\ SplitOff /\ ChunkerOff /\ ClusterOff /\ DocpackOff
    /\ SchemaOff /\ IntentOff /\ ValidateOff /\ PipelineOff
    /\ RaceOff /\ IngestOff
OtherThanIntentOff ==
    /\ SplitOff /\ ChunkerOff /\ ClusterOff /\ DocpackOff
    /\ SchemaOff /\ ProjectOff /\ ValidateOff /\ PipelineOff
    /\ RaceOff /\ IngestOff
OtherThanValidateOff ==
    /\ SplitOff /\ ChunkerOff /\ ClusterOff /\ DocpackOff
    /\ SchemaOff /\ ProjectOff /\ IntentOff /\ PipelineOff
    /\ RaceOff /\ IngestOff
OtherThanPipelineOff ==
    /\ SplitOff /\ ChunkerOff /\ ClusterOff /\ DocpackOff
    /\ SchemaOff /\ ProjectOff /\ IntentOff /\ ValidateOff
    /\ RaceOff /\ IngestOff
OtherThanRaceOff ==
    /\ SplitOff /\ ChunkerOff /\ ClusterOff /\ DocpackOff
    /\ SchemaOff /\ ProjectOff /\ IntentOff /\ ValidateOff
    /\ PipelineOff /\ IngestOff
OtherThanIngestOff ==
    /\ SplitOff /\ ChunkerOff /\ ClusterOff /\ DocpackOff
    /\ SchemaOff /\ ProjectOff /\ IntentOff /\ ValidateOff
    /\ PipelineOff /\ RaceOff

-----------------------------------------------------------------------------
(* Python values *)

None == <<>>
Some(x) == <<x>>

NL == "NL"

\* The lines texts are built from: "", " ", "abcd", "stuvwxyz"
\* (0, 0, 1 and 2 tokens).
LineSet ==
    { <<>>,
      <<" ">>,
      <<"a", "b", "c", "d">>,
      <<"s", "t", "u", "v", "w", "x", "y", "z">> }

\* sep.join(strs)
RECURSIVE Join(_, _)
Join(strs, sep) ==
    IF strs = <<>> THEN <<>>
    ELSE IF Len(strs) = 1 THEN strs[1]
    ELSE strs[1] \o sep \o Join(Tail(strs), sep)

\* s.split('\n'): the pieces between newline characters, at least one piece
Split(s) ==
    LET newlines == { i \in 1..Len(s) : s[i] = NL }
        \* the position of the j-th newline; 0 and Len(s) + 1 stand at the ends
        at(j) ==
            IF j = 0 THEN 0
            ELSE IF j > Cardinality(newlines) THEN Len(s) + 1
            ELSE CHOOSE i \in newlines :
                    Cardinality({ m \in newlines : m < i }) = j - 1
    IN  [j \in 1..(Cardinality(newlines) + 1) |->
            SubSeq(s, at(j - 1) + 1, at(j) - 1)]

\* not text.strip(): every character is white space
IsBlank(s) == \A i \in 1..Len(s) : s[i] \in {" ", NL}

DigitChars == <<"0", "1", "2", "3", "4", "5", "6", "7", "8", "9">>

\* the number of newline-separated lines of s
NumLines(s) == 1 + Cardinality({ i \in 1..Len(s) : s[i] = NL })

\* the texts of 1..n lines of LineSet
Texts(n) ==
    { Join(ls, <<NL>>) : ls \in UNION { [1..m -> LineSet] : m \in 1..n } }

-----------------------------------------------------------------------------
(* chunking.py *)

CharsPerToken == 4

count_tokens(s) == Len(s) \div CharsPerToken

\* the overlap walk: backward through the closed chunk's lines, i the next
\* line to look at, acc the overlap lines so far and tok their token sum
RECURSIVE OverlapWalkOver(_, _, _, _, _)
OverlapWalkOver(current_chunk, i, acc, tok, ov) ==
    IF i = 0 THEN <<acc, tok>>
    ELSE IF tok > ov THEN <<acc, tok>>
    ELSE OverlapWalkOver(current_chunk, i - 1, <<current_chunk[i]>> \o acc,
                         tok + count_tokens(current_chunk[i]), ov)

\* mutation of OverlapWalk: no line is carried over
OverlapWalkNone(current_chunk, i, acc, tok, ov) == <<acc, tok>>

RECURSIVE OverlapWalk(_, _, _, _, _)
OverlapWalk(current_chunk, i, acc, tok, ov) ==
    IF i = 0 THEN <<acc, tok>>
    ELSE IF tok + count_tokens(current_chunk[i]) > ov THEN <<acc, tok>>
    ELSE OverlapWalk(current_chunk, i - 1, <<current_chunk[i]>> \o acc,
                     tok + count_tokens(current_chunk[i]), ov)

NextStartLineGap(line_idx, overlap_lines) == line_idx + 1 - Len(overlap_lines)

\* mutation of NextStartLine: the new chunk starts one line too early
NextStartLineEarly(line_idx, overlap_lines) ==
    line_idx - Len(overlap_lines) - 1

\* start_line of the chunk that follows a closed one
NextStartLine(line_idx, overlap_lines) == line_idx - Len(overlap_lines)

\* one pass of the for loop over enumerate(lines); line_idx is 0-based, st
\* is the loop's state [current_chunk, current_tokens, start_line, chunks]
SplitStep(lines, line_idx, st, size, ov) ==
    LET line == lines[line_idx + 1]
        line_tokens == count_tokens(line)
        closes == st.current_tokens + line_tokens > size
                  /\ st.current_chunk # <<>>
        walk == OverlapWalk(st.current_chunk, Len(st.current_chunk),
                            <<>>, 0, ov)
        s1 == IF closes
              THEN [current_chunk |-> walk[1],
                    current_tokens |-> walk[2],
                    start_line |-> NextStartLine(line_idx, walk[1]),
                    chunks |-> Append(st.chunks,
                                 <<Join(st.current_chunk, <<NL>>),
                                   st.start_line, line_idx - 1>>)]
              ELSE st
    IN  [s1 EXCEPT !.current_chunk = Append(@, line),
                   !.current_tokens = @ + line_tokens]

\* the passes for the lines lo..hi-1 in order: the state after the first half
\* of the range is the state the second half starts from (the range is halved
\* so that long texts need few nested evaluations)
RECURSIVE SplitRange(_, _, _, _, _, _)
SplitRange(lines, lo, hi, st, size, ov) ==
    IF lo >= hi THEN st
    ELSE IF hi = lo + 1 THEN SplitStep(lines, lo, st, size, ov)
    ELSE LET mid == (lo + hi) \div 2
         IN  CHOOSE last \in
                 { SplitRange(lines, mid, hi, first, size, ov) :
                     first \in { SplitRange(lines, lo, mid, st, size, ov) } } :
                 TRUE

\* the for loop from line_idx to the last line
SplitLoop(lines, line_idx, st, size, ov) ==
    SplitRange(lines, line_idx, Len(lines), st, size, ov)

\* split_text_by_tokens: the (chunk_text, start_line, end_line) tuples,
\* lines 0-based
split_text_by_tokens(t, size, ov) ==
    LET lines == Split(t)
        st == SplitLoop(lines, 0,
                        [current_chunk |-> <<>>, current_tokens |-> 0,
                         start_line |-> 0, chunks |-> <<>>],
                        size, ov)
    IN  IF st.current_chunk # <<>>
        THEN Append(st.chunks,
                    <<Join(st.current_chunk, <<NL>>), st.start_line,
                      Len(lines) - 1>>)
        ELSE st.chunks

-----------------------------------------------------------------------------
(* split_text_by_tokens applied to one text *)

ChunkSizes == (0 - 1)..MaxChunkSize
Overlaps == (0 - 1)..MaxOverlap

InitSplit ==
    /\ OtherThanSplitOff
    /\ text \in Texts(MaxLines)
    /\ chunk_size \in ChunkSizes
    /\ overlap \in Overlaps
    /\ split_pc = "call"
    /\ split_result = <<>>

SplitCall ==
    /\ split_pc = "call"
    /\ split_result' = split_text_by_tokens(text, chunk_size, overlap)
    /\ split_pc' = "returned"
    /\ UNCHANGED <<text, chunk_size, overlap>>
    /\ UNCHANGED <<chunkerVars, clusterVars, docpackVars, schemaVars,
                   projectVars, intentVars, validateVars, pipelineVars,
                   raceVars, ingestVars>>

-----------------------------------------------------------------------------
(* split_text_by_tokens on a 1000-character file of 20-character lines *)

\* the scenario: the file's characters, the characters of a line, and the
\* chunk_size and overlap it is chunked with
Scenario ==
    [chars |-> 1000, line_chars |-> 20, chunk_size |-> 50, overlap |-> 10]

\* a line of n characters
LineOf(n) == [i \in 1..n |-> "x"]

\* k lines of n characters each
LinesOf(k, n) == [i \in 1..k |-> LineOf(n)]

\* the files of the scenario: lines of line_chars characters that sum to
\* chars characters, joined by newlines; lines of line_chars characters with
\* their newline, chars characters in all; and chars characters in all, cut
\* into lines of line_chars characters and a shorter last one
ScenarioTexts ==
    LET c == Scenario.chars
        l == Scenario.line_chars
    IN  { Join(LinesOf(c \div l, l), <<NL>>),
          Join(LinesOf(c \div l, l - 1), <<NL>>) \o <<NL>>,
          Join(LinesOf(c \div (l + 1), l), <<NL>>)
              \o <<NL>> \o LineOf(c % (l + 1)) }

InitScenario ==
    /\ OtherThanSplitOff
    /\ text \in ScenarioTexts
    /\ chunk_size \in (Scenario.chunk_size - MaxScenarioDelta)
                          ..(Scenario.chunk_size + MaxScenarioDelta)
    /\ overlap \in (Scenario.overlap - MaxScenarioDelta)
                       ..(Scenario.overlap + MaxScenarioDelta)
    /\ split_pc = "call"
    /\ split_result = <<>>

-----------------------------------------------------------------------------
(* Chunker: chunk_documents(vfs, chunk_size_tokens, chunk_overlap_tokens) *)

\* a byte that is not valid UTF-8
BadByte == "xFF"

\* data.decode('utf-8', errors='ignore'): the invalid bytes are dropped
Decode(data) == SelectSeq(data, LAMBDA b : b # BadByte)

\* the embedding capability's answers
Embeddings == { <<0>>, <<12>> }

\* the path of the i-th file of a virtual file system
FilePath(i) == <<"f", DigitChars[i + 1]>>

\* file contents of exactly n lines
FileData(n) ==
    { d \in Texts(n) : NumLines(d) = n } \cup (IF n = 1 THEN {<<BadByte>>} ELSE {})

\* the virtual file systems of m files: their paths are distinct and their
\* lines sum to at most budget
RECURSIVE VfsOf(_, _)
VfsOf(m, budget) ==
    IF m = 0 THEN { <<>> }
    ELSE UNION { { Append(v, [path |-> FilePath(m), data |-> d]) :
                     d \in FileData(n), v \in VfsOf(m - 1, budget - n) } :
                 n \in 1..(budget - (m - 1)) }

VfsSet == UNION { VfsOf(m, MaxVfsLines) : m \in 0..MaxFiles }

ChunkIdAfterSkip(counter) == counter + 2

\* self._chunk_id_counter += 1
ChunkIdAfter(counter) == counter + 1

\* mutation of MakeChunk: the line numbers stay 0-based
MakeChunkZeroBased(id, path, tc, embedding) ==
    [chunk_id |-> id, file_path |-> path,
     start_line |-> tc[2], end_line |-> tc[3],
     tokens |-> count_tokens(tc[1]), text |-> tc[1],
     embedding |-> embedding, cluster_id |-> None]

\* Chunk(chunk_id=..., ...) of one (chunk_text, start_line, end_line)
MakeChunk(id, path, tc, embedding) ==
    [chunk_id |-> id, file_path |-> path,
     start_line |-> tc[2] + 1, end_line |-> tc[3] + 1,
     tokens |-> count_tokens(tc[1]), text |-> tc[1],
     embedding |-> embedding, cluster_id |-> None]

\* Chunker.__init__ and the entry of chunk_vfs
InitChunker ==
    /\ OtherThanChunkerOff
    /\ vfs \in VfsSet
    /\ chunker_size \in 1..MaxChunkerSize
    /\ chunker_overlap \in {0, 1}
    /\ chunker_pc = "next_file"
    /\ file_idx = 1
    /\ text_chunks = <<>>
    /\ file_chunks = <<>>
    /\ chunks = <<>>
    /\ chunk_id_counter = 0

\* _chunk_file on a file whose trimmed text is empty: returns []
SkipFile ==
    /\ chunker_pc = "next_file"
    /\ file_idx <= Len(vfs)
    /\ IsBlank(Decode(vfs[file_idx].data))
    /\ file_idx' = file_idx + 1
    /\ UNCHANGED <<vfs, chunker_size, chunker_overlap, chunker_pc,
                   text_chunks, file_chunks, chunks, chunk_id_counter>>
    /\ UNCHANGED <<splitVars, clusterVars, docpackVars, schemaVars,
                   projectVars, intentVars, validateVars, pipelineVars,
                   raceVars, ingestVars>>

\* _chunk_file up to the split of the decoded text
SplitFile ==
    /\ chunker_pc = "next_file"
    /\ file_idx <= Len(vfs)
    /\ ~IsBlank(Decode(vfs[file_idx].data))
    /\ text_chunks' = split_text_by_tokens(Decode(vfs[file_idx].data),
                                           chunker_size, chunker_overlap)
    /\ file_chunks' = <<>>
    /\ chunker_pc' = "in_file"
    /\ UNCHANGED <<vfs, chunker_size, chunker_overlap, file_idx, chunks,
                   chunk_id_counter>>
    /\ UNCHANGED <<splitVars, clusterVars, docpackVars, schemaVars,
                   projectVars, intentVars, validateVars, pipelineVars,
                   raceVars, ingestVars>>

\* one iteration of the loop over text_chunks: embed, build the Chunk,
\* advance the counter
CreateChunk ==
    /\ chunker_pc = "in_file"
    /\ text_chunks # <<>>
    /\ \E embedding \in Embeddings :
         file_chunks' = Append(file_chunks,
                               MakeChunk(chunk_id_counter,
                                         vfs[file_idx].path,
                                         Head(text_chunks), embedding))
    /\ chunk_id_counter' = ChunkIdAfter(chunk_id_counter)
    /\ text_chunks' = Tail(text_chunks)
    /\ UNCHANGED <<vfs, chunker_size, chunker_overlap, chunker_pc, file_idx,
                   chunks>>
    /\ UNCHANGED <<splitVars, clusterVars, docpackVars, schemaVars,
                   projectVars, intentVars, validateVars, pipelineVars,
                   raceVars, ingestVars>>

\* get_embedding raises RuntimeError: chunk_vfs returns nothing
EmbeddingFails ==
    /\ chunker_pc = "in_file"
    /\ text_chunks # <<>>
    /\ chunker_pc' = "raised"
    /\ UNCHANGED <<vfs, chunker_size, chunker_overlap, file_idx, text_chunks,
                   file_chunks, chunks, chunk_id_counter>>
    /\ UNCHANGED <<splitVars, clusterVars, docpackVars, schemaVars,
                   projectVars, intentVars, validateVars, pipelineVars,
                   raceVars, ingestVars>>

\* _chunk_file returns and chunk_vfs extends its list
FinishFile ==
    /\ chunker_pc = "in_file"
    /\ text_chunks = <<>>
    /\ chunks' = chunks \o file_chunks
    /\ file_chunks' = <<>>
    /\ file_idx' = file_idx + 1
    /\ chunker_pc' = "next_file"
    /\ UNCHANGED <<vfs, chunker_size, chunker_overlap, text_chunks,
                   chunk_id_counter>>
    /\ UNCHANGED <<splitVars, clusterVars, docpackVars, schemaVars,
                   projectVars, intentVars, validateVars, pipelineVars,
                   raceVars, ingestVars>>

\* chunk_vfs returns chunks
ReturnChunks ==
    /\ chunker_pc = "next_file"
    /\ file_idx > Len(vfs)
    /\ chunker_pc' = "returned"
    /\ UNCHANGED <<vfs, chunker_size, chunker_overlap, file_idx, text_chunks,
                   file_chunks, chunks, chunk_id_counter>>
    /\ UNCHANGED <<splitVars, clusterVars, docpackVars, schemaVars,
                   projectVars, intentVars, validateVars, pipelineVars,
                   raceVars, ingestVars>>

NextChunker ==
    \/ SkipFile
    \/ SplitFile
    \/ CreateChunk
    \/ EmbeddingFails
    \/ FinishFile
    \/ ReturnChunks

-----------------------------------------------------------------------------
(* clustering.py *)

\* the chunks cluster_chunks is called on are drawn from these: three with
\* chunk_ids 0, 1, 2 and a fourth that repeats chunk_id 0; the first and the
\* third carry the same embedding
ChunkPool ==
    { MakeChunk(0, FilePath(1), <<<<"a", "b", "c", "d">>, 0, 0>>, <<0>>),
      MakeChunk(1, FilePath(1), <<<<"s", "t", "u", "v">>, 1, 1>>, <<12>>),
      MakeChunk(2, FilePath(2), <<<<"a", "b", "c", "d">>, 0, 0>>, <<0>>),
      MakeChunk(0, FilePath(3), <<<<"s", "t", "u", "v">>, 0, 0>>, <<12>>) }

\* the chunk lists of n different chunks of the pool
ChunkLists(n) ==
    { cs \in [1..n -> ChunkPool] :
        \A i, j \in 1..n : i # j => cs[i] # cs[j] }

Methods == { "kmeans", "hierarchical", "spectral" }

RECURSIVE SumCoord(_, _)
SumCoord(embeddings, j) ==
    IF embeddings = <<>> THEN 0
    ELSE Head(embeddings)[j] + SumCoord(Tail(embeddings), j)

\* compute_centroid: the coordinate-wise mean ([] of no embeddings); the
\* coordinates of Embeddings are multiples of 12, so the mean of up to four
\* of them is a whole number
compute_centroid(embeddings) ==
    IF embeddings = <<>> THEN <<>>
    ELSE [j \in 1..Len(embeddings[1]) |->
             SumCoord(embeddings, j) \div Len(embeddings)]

EffectiveClustersNoCap(k, n) == k

\* effective_clusters = min(self.num_clusters, len(chunks))
EffectiveClusters(k, n) == IF k < n THEN k ELSE n

\* clusterer.fit_predict(embeddings): the labelling capability returns one
\* label in [0, effective_clusters) per chunk.  AgglomerativeClustering cuts
\* its tree into exactly n_clusters groups, so every label is used; KMeans
\* leaves a label unused only when fewer distinct points than n_clusters
\* exist (it then warns of duplicate points and returns fewer distinct
\* labels).  Any labelling within these limits may come back.
Labelings(m, embeddings, effective_clusters) ==
    LET n == Len(embeddings)
        distinct == Cardinality({ embeddings[i] : i \in 1..n })
        least == IF m = "hierarchical" \/ effective_clusters <= distinct
                 THEN effective_clusters
                 ELSE distinct
    IN  { labels \in [1..n -> 0..(effective_clusters - 1)] :
            Cardinality({ labels[i] : i \in 1..n }) >= least }

ClusterMembersUpTo(cs, cluster_id) ==
    SelectSeq(cs, LAMBDA chunk : chunk.cluster_id[1] <= cluster_id)

\* [chunk for chunk in chunks if chunk.cluster_id == cluster_id]
ClusterMembers(cs, cluster_id) ==
    SelectSeq(cs, LAMBDA chunk : chunk.cluster_id = Some(cluster_id))

\* Cluster(cluster_id=..., chunk_ids=..., centroid=..., summary=None)
BuildCluster(cs, cluster_id) ==
    LET members == ClusterMembers(cs, cluster_id)
    IN  [cluster_id |-> cluster_id,
         chunk_ids |-> [i \in 1..Len(members) |-> members[i].chunk_id],
         centroid |->
             compute_centroid([i \in 1..Len(members) |-> members[i].embedding]),
         summary |-> None]

\* ClusterEngine.__init__ and the entry of cluster_chunks
InitCluster ==
    /\ OtherThanClusterOff
    /\ cl_chunks \in UNION { ChunkLists(n) : n \in 0..MaxChunks }
    /\ num_clusters \in 1..MaxK
    /\ method \in Methods
    /\ cl_pc = "call"
    /\ clusters = <<>>

\* if not chunks: return []
ClusterNoChunks ==
    /\ cl_pc = "call"
    /\ cl_chunks = <<>>
    /\ clusters' = <<>>
    /\ cl_pc' = "returned"
    /\ UNCHANGED <<cl_chunks, num_clusters, method>>
    /\ UNCHANGED <<splitVars, chunkerVars, docpackVars, schemaVars,
                   projectVars, intentVars, validateVars, pipelineVars,
                   raceVars, ingestVars>>

\* raise ValueError("Unknown clustering method")
ClusterUnknownMethod ==
    /\ cl_pc = "call"
    /\ cl_chunks # <<>>
    /\ method \notin { "kmeans", "hierarchical" }
    /\ cl_pc' = "raised"
    /\ UNCHANGED <<cl_chunks, num_clusters, method, clusters>>
    /\ UNCHANGED <<splitVars, chunkerVars, docpackVars, schemaVars,
                   projectVars, intentVars, validateVars, pipelineVars,
                   raceVars, ingestVars>>

\* label the chunks, assign every chunk.cluster_id, build the clusters
ClusterChunks ==
    /\ cl_pc = "call"
    /\ cl_chunks # <<>>
    /\ method \in { "kmeans", "hierarchical" }
    /\ LET effective_clusters ==
               EffectiveClusters(num_clusters, Len(cl_chunks))
           embeddings ==
               [i \in 1..Len(cl_chunks) |-> cl_chunks[i].embedding]
       IN  \E labels \in Labelings(method, embeddings, effective_clusters) :
             LET labelled ==
                     [i \in 1..Len(cl_chunks) |->
                         [cl_chunks[i] EXCEPT !.cluster_id = Some(labels[i])]]
             IN  /\ cl_chunks' = labelled
                 /\ clusters' =
                        [c \in 1..effective_clusters |->
                            BuildCluster(labelled, c - 1)]
    /\ cl_pc' = "returned"
    /\ UNCHANGED <<num_clusters, method>>
    /\ UNCHANGED <<splitVars, chunkerVars, docpackVars, schemaVars,
                   projectVars, intentVars, validateVars, pipelineVars,
                   raceVars, ingestVars>>

NextCluster ==
    \/ ClusterNoChunks
    \/ ClusterUnknownMethod
    \/ ClusterChunks

-----------------------------------------------------------------------------
(* docpack.py: serialisation *)

\* the characters of record names in code-point order, which is the order
\* sorted() compares str by
CodeOrder ==
    <<".", "/", "0", "1", "2", "3", "4", "5", "6", "7", "8", "9", "_",
      "a", "b", "c", "d", "e", "f", "g", "h", "i", "j", "k", "l", "m",
      "n", "o", "p", "q", "r", "s", "t", "u", "v", "w", "x", "y", "z">>

Ord(c) == CHOOSE i \in 1..Len(CodeOrder) : CodeOrder[i] = c

\* a < b for two str
RECURSIVE StrLess(_, _)
StrLess(a, b) ==
    IF b = <<>> THEN FALSE
    ELSE IF a = <<>> THEN TRUE
    ELSE IF a[1] = b[1] THEN StrLess(Tail(a), Tail(b))
    ELSE Ord(a[1]) < Ord(b[1])

\* sorted(names)
RECURSIVE InsertSorted(_, _)
InsertSorted(name, sorted) ==
    IF sorted = <<>> THEN <<name>>
    ELSE IF StrLess(sorted[1], name)
         THEN <<sorted[1]>> \o InsertSorted(name, Tail(sorted))
         ELSE <<name>> \o sorted

RECURSIVE Sorted(_)
Sorted(names) ==
    IF names = <<>> THEN <<>>
    ELSE InsertSorted(names[1], Sorted(Tail(names)))

\* name.startswith(prefix)
StartsWith(name, prefix) ==
    /\ Len(name) >= Len(prefix)
    /\ SubSeq(name, 1, Len(prefix)) = prefix

\* str(n) for n >= 0
RECURSIVE Digits(_)
Digits(n) ==
    IF n < 10 THEN <<DigitChars[n + 1]>>
    ELSE Digits(n \div 10) \o <<DigitChars[(n % 10) + 1]>>

\* f"{n:0{width}d}" for n >= 0: zero-padded to at least width digits
ZeroPad(n, width) ==
    LET d == Digits(n)
    IN  IF Len(d) >= width THEN d
        ELSE [i \in 1..(width - Len(d)) |-> "0"] \o d

ChunkPad == 4
ClusterPad == 2

ManifestName ==
        <<"m", "a", "n", "i", "f", "e", "s", "t", ".", "j", "s", "o", "n">>
IntentName ==
        <<"i", "n", "t", "e", "n", "t", ".", "y", "a", "m", "l">>
SummaryName ==
    <<"p", "r", "o", "j", "e", "c", "t", "_", "s", "u", "m", "m", "a", "r", "y",
      ".", "j", "s", "o", "n">>
ChunksDir == <<"c", "h", "u", "n", "k", "s", "/">>
ClustersDir ==
        <<"c", "l", "u", "s", "t", "e", "r", "s", "/">>
RawDir == <<"r", "a", "w", "/">>

\* f"chunks/chunk_{chunk.chunk_id:04d}.json"
ChunkFilename(chunk_id) ==
    ChunksDir \o <<"c", "h", "u", "n", "k", "_">>
    \o ZeroPad(chunk_id, ChunkPad) \o <<".", "j", "s", "o", "n">>

\* f"clusters/cluster_{cluster.cluster_id:02d}.json"
ClusterFilename(cluster_id) ==
    ClustersDir \o <<"c", "l", "u", "s", "t", "e", "r", "_">>
    \o ZeroPad(cluster_id, ClusterPad) \o <<".", "j", "s", "o", "n">>

\* JSON text, as the value it denotes: null, a number, a string, a boolean,
\* an array, or an object (its key/value pairs in the order written)
JNull == <<"null">>
JNum(n) == <<"num", n>>
JStr(str) == <<"str", str>>
JBool(b) == <<"bool", b>>
JList(items) == <<"list", items>>
JObj(pairs) == <<"obj", pairs>>

\* data[key] of a parsed JSON object
JGet(obj, key) ==
    LET i == CHOOSE i \in 1..Len(obj[2]) : obj[2][i][1] = key
    IN  obj[2][i][2]

JHas(obj, key) == \E i \in 1..Len(obj[2]) : obj[2][i][1] = key

\* an Optional[int] field, dumped and parsed
DumpOptNum(v) == IF v = None THEN JNull ELSE JNum(v[1])
LoadOptNum(j) == IF j[1] = "null" THEN None ELSE Some(j[2])

\* a List[float] or List[int] field, dumped and parsed
DumpNums(xs) == JList([i \in 1..Len(xs) |-> JNum(xs[i])])
LoadNums(j) == [i \in 1..Len(j[2]) |-> j[2][i][2]]

\* a Dict[str, Any] whose values are strings, dumped and parsed; a dict is
\* the sequence of its (key, value) items
DumpDict(d) == JObj([i \in 1..Len(d) |-> <<d[i][1], JStr(d[i][2])>>])
LoadDict(j) == [i \in 1..Len(j[2]) |-> <<j[2][i][1], j[2][i][2][2]>>]

\* chunk.model_dump(mode='json') written by json.dumps
DumpChunk(chunk) ==
    JObj(<< <<"chunk_id", JNum(chunk.chunk_id)>>,
            <<"file_path", JStr(chunk.file_path)>>,
            <<"start_line", JNum(chunk.start_line)>>,
            <<"end_line", JNum(chunk.end_line)>>,
            <<"tokens", JNum(chunk.tokens)>>,
            <<"text", JStr(chunk.text)>>,
            <<"embedding", DumpNums(chunk.embedding)>>,
            <<"cluster_id", DumpOptNum(chunk.cluster_id)>> >>)

\* Chunk(**json.loads(data))
LoadChunk(j) ==
    [chunk_id |-> JGet(j, "chunk_id")[2],
     file_path |-> JGet(j, "file_path")[2],
     start_line |-> JGet(j, "start_line")[2],
     end_line |-> JGet(j, "end_line")[2],
     tokens |-> JGet(j, "tokens")[2],
     text |-> JGet(j, "text")[2],
     embedding |-> LoadNums(JGet(j, "embedding")),
     cluster_id |-> IF JHas(j, "cluster_id")
                    THEN LoadOptNum(JGet(j, "cluster_id"))
                    ELSE None]

\* cluster.model_dump(mode='json') written by json.dumps
DumpCluster(cluster) ==
    JObj(<< <<"cluster_id", JNum(cluster.cluster_id)>>,
            <<"chunk_ids", DumpNums(cluster.chunk_ids)>>,
            <<"centroid", DumpNums(cluster.centroid)>>,
            <<"summary", IF cluster.summary = None THEN JNull
                         ELSE DumpDict(cluster.summary[1])>> >>)

\* Cluster(**json.loads(data))
LoadCluster(j) ==
    [cluster_id |-> JGet(j, "cluster_id")[2],
     chunk_ids |-> LoadNums(JGet(j, "chunk_ids")),
     centroid |-> LoadNums(JGet(j, "centroid")),
     summary |-> IF JHas(j, "summary") /\ JGet(j, "summary")[1] # "null"
                 THEN Some(LoadDict(JGet(j, "summary")))
                 ELSE None]

\* datetime.isoformat() and its parse by pydantic
IsoFormat(t) == <<"iso", t>>
ParseIso(str) == str[2]

\* manifest.model_dump(mode='json') written by json.dumps
DumpManifest(m) ==
    JObj(<< <<"created_at", JStr(IsoFormat(m.created_at))>>,
            <<"doctown_version", JStr(m.doctown_version)>>,
            <<"source_type", JStr(m.source_type)>>,
            <<"source_identifier", JStr(m.source_identifier)>>,
            <<"intent_name", JStr(m.intent_name)>>,
            <<"intent_description", JStr(m.intent_description)>>,
            <<"file_count", JNum(m.file_count)>>,
            <<"chunk_count", JNum(m.chunk_count)>>,
            <<"cluster_count", JNum(m.cluster_count)>>,
            <<"total_tokens", JNum(m.total_tokens)>>,
            <<"embedding_dim", JNum(m.embedding_dim)>>,
            <<"includes_raw_files", JBool(m.includes_raw_files)>> >>)

\* DocpackManifest(**json.loads(data))
LoadManifest(j) ==
    [created_at |-> ParseIso(JGet(j, "created_at")[2]),
     doctown_version |-> JGet(j, "doctown_version")[2],
     source_type |-> JGet(j, "source_type")[2],
     source_identifier |-> JGet(j, "source_identifier")[2],
     intent_name |-> JGet(j, "intent_name")[2],
     intent_description |-> JGet(j, "intent_description")[2],
     file_count |-> JGet(j, "file_count")[2],
     chunk_count |-> JGet(j, "chunk_count")[2],
     cluster_count |-> JGet(j, "cluster_count")[2],
     total_tokens |-> JGet(j, "total_tokens")[2],
     embedding_dim |-> JGet(j, "embedding_dim")[2],
     includes_raw_files |-> JGet(j, "includes_raw_files")[2]]

\* yaml.dump(intent_spec) and yaml.safe_load: a YAML mapping is the set of
\* its key/value pairs (yaml.dump writes the keys sorted, and a dict does not
\* compare by order)
YamlDump(d) == { <<k, d[k]>> : k \in DOMAIN d }
YamlLoad(doc) ==
    [k \in { kv[1] : kv \in doc } |->
        (CHOOSE kv \in doc : kv[1] = k)[2]]

-----------------------------------------------------------------------------
(* docpack.py: DocpackWriter.write and DocpackReader.read *)

\* one raw/ record per item of a raw-file dict
RawRecords(raw_files) ==
    IF raw_files = None THEN <<>>
    ELSE [i \in 1..Len(raw_files[1]) |->
            [name |-> RawDir \o raw_files[1][i][1],
             data |-> raw_files[1][i][2]]]

\* the writestr calls of the body of write's with block, in order
WritePlan(d) ==
    <<[name |-> ManifestName, data |-> DumpManifest(d.manifest)],
      [name |-> IntentName, data |-> YamlDump(d.intent_spec)]>>
    \o [i \in 1..Len(d.chunks) |->
          [name |-> ChunkFilename(d.chunks[i].chunk_id),
           data |-> DumpChunk(d.chunks[i])]]
    \o [i \in 1..Len(d.clusters) |->
          [name |-> ClusterFilename(d.clusters[i].cluster_id),
           data |-> DumpCluster(d.clusters[i])]]
    \o <<[name |-> SummaryName, data |-> DumpDict(d.project_summary)]>>
    \o (IF /\ d.manifest.includes_raw_files
           /\ d.raw_files # None
           /\ d.raw_files[1] # <<>>
        THEN RawRecords(d.raw_files)
        ELSE <<>>)

\* a container that is at the destination before the writer runs: the
\* records of the Archive, and its raw files stored under raw/ even when
\* the manifest says that no raw files are included
LeftoverContainer(d) ==
    WritePlan(d)
    \o (IF d.manifest.includes_raw_files THEN <<>>
        ELSE RawRecords(d.raw_files))

\* zf.namelist()
NameList(entries) == [i \in 1..Len(entries) |-> entries[i].name]

HasEntry(entries, name) == \E i \in 1..Len(entries) : entries[i].name = name

\* zf.read(name): the last entry written under the name
ReadEntry(entries, name) ==
    LET i == CHOOSE i \in 1..Len(entries) :
                 /\ entries[i].name = name
                 /\ \A j \in (i + 1)..Len(entries) : entries[j].name # name
    IN  entries[i].data

NamesUnder(entries, dir) ==
    SelectSeq(NameList(entries), LAMBDA name : StartsWith(name, dir))

\* the outcome of a load_docpack call, and where the writer was at the call
ReadError ==
    [status |-> "error", docpack |-> <<>>, at |-> "none", raw_read |-> <<>>]
NotRead ==
    [status |-> "none", docpack |-> <<>>, at |-> "none", raw_read |-> <<>>]

\* mutation of ReadRawFiles: the raw/ namespace is read whatever the flag
ReadRawFilesAlways(manifest, entries) ==
    LET raw_file_names == NamesUnder(entries, RawDir)
    IN  [raw_read |-> raw_file_names,
         raw_files |->
            Some([i \in 1..Len(raw_file_names) |->
                    <<SubSeq(raw_file_names[i], 5, Len(raw_file_names[i])),
                      ReadEntry(entries, raw_file_names[i])>>])]

\* the raw files of read: the raw/ members it reads, and the dict it builds
\* from them, or None without reading when the manifest says that no raw
\* files are included
ReadRawFiles(manifest, entries) ==
    IF manifest.includes_raw_files
    THEN LET raw_file_names == NamesUnder(entries, RawDir)
         IN  [raw_read |-> raw_file_names,
              raw_files |->
                 Some([i \in 1..Len(raw_file_names) |->
                         <<SubSeq(raw_file_names[i], 5,
                                  Len(raw_file_names[i])),
                           ReadEntry(entries, raw_file_names[i])>>])]
    ELSE [raw_read |-> <<>>, raw_files |-> None]

\* load_docpack(path): the file is missing, or has no central directory yet
\* (zipfile raises BadZipFile), or a required member is missing (KeyError),
\* or the Docpack is built from the members
ReadDocpack(state, entries) ==
    IF state # "finalized" THEN ReadError
    ELSE IF \/ ~HasEntry(entries, ManifestName)
            \/ ~HasEntry(entries, IntentName)
            \/ ~HasEntry(entries, SummaryName)
    THEN ReadError
    ELSE
        LET manifest == LoadManifest(ReadEntry(entries, ManifestName))
            chunk_files == Sorted(NamesUnder(entries, ChunksDir))
            cluster_files == Sorted(NamesUnder(entries, ClustersDir))
            raw == ReadRawFiles(manifest, entries)
        IN  [status |-> "ok", at |-> "none", raw_read |-> raw.raw_read,
             docpack |->
               [manifest |-> manifest,
                intent_spec |-> YamlLoad(ReadEntry(entries, IntentName)),
                chunks |-> [i \in 1..Len(chunk_files) |->
                              LoadChunk(ReadEntry(entries, chunk_files[i]))],
                clusters |-> [i \in 1..Len(cluster_files) |->
                                LoadCluster(ReadEntry(entries, cluster_files[i]))],
                project_summary |-> LoadDict(ReadEntry(entries, SummaryName)),
                raw_files |-> raw.raw_files]]

(* Archives handed to the writer *)

RECURSIVE Pow10(_)
Pow10(n) == IF n = 0 THEN 1 ELSE 10 * Pow10(n - 1)

\* ids around the width of the zero padding of the record names
ChunkIdPool == {0, Pow10(ChunkPad) - 1, Pow10(ChunkPad)}
ClusterIdPool == {0, Pow10(ClusterPad) - 1, Pow10(ClusterPad)}

\* lists of at most n distinct ids of the pool, in any order
IdLists(pool, n) ==
    { ids \in UNION { [1..m -> pool] : m \in 0..n } :
        \A i, j \in 1..Len(ids) : i # j => ids[i] # ids[j] }

DocChunk(id) ==
    [MakeChunk(id, FilePath(1), <<<<"a", "b", "c", "d">>, 0, 0>>, <<0, 12>>)
        EXCEPT !.cluster_id = IF id = 0 THEN None ELSE Some(0)]

DocCluster(id) ==
    [cluster_id |-> id,
     chunk_ids |-> <<0>>,
     centroid |-> <<0, 12>>,
     summary |-> IF id = 0 THEN None
                 ELSE Some(<< <<"topic", "parsing">> >>)]

ProjectSummaries == { <<>>, << <<"overview", "a parser">> >> }

RawFileLists ==
    { None, Some(<< <<FilePath(1), <<"d", "1">>>> >>),
      Some(<< <<FilePath(1), <<"d", "1">>>>, <<FilePath(2), <<"d", "2">>>> >>) }

DocIntentSpec ==
    [name |-> "docs",
     description |-> "documentation",
     project_schema |-> [overview |-> "str"],
     max_chunks_per_cluster |-> 10]

DocManifest(chunk_ids, cluster_ids, includes_raw_files) ==
    [created_at |-> 1,
     doctown_version |-> "12.0.0",
     source_type |-> "zip",
     source_identifier |-> "repo.zip",
     intent_name |-> DocIntentSpec.name,
     intent_description |-> DocIntentSpec.description,
     file_count |-> 1,
     chunk_count |-> Len(chunk_ids),
     cluster_count |-> Len(cluster_ids),
     total_tokens |-> Len(chunk_ids),
     embedding_dim |-> 2,
     includes_raw_files |-> includes_raw_files]

Docpacks ==
    { [manifest |-> DocManifest(chunk_ids, cluster_ids, includes_raw_files),
       intent_spec |-> DocIntentSpec,
       chunks |-> [i \in 1..Len(chunk_ids) |-> DocChunk(chunk_ids[i])],
       clusters |-> [i \in 1..Len(cluster_ids) |-> DocCluster(cluster_ids[i])],
       project_summary |-> project_summary,
       raw_files |-> raw_files] :
      chunk_ids \in IdLists(ChunkIdPool, MaxRecords),
      cluster_ids \in IdLists(ClusterIdPool, MaxRecords),
      project_summary \in ProjectSummaries,
      includes_raw_files \in BOOLEAN,
      raw_files \in RawFileLists }

InitDocpack ==
    /\ docpack \in Docpacks
    /\ \/ zip_state = "absent" /\ zip_entries = <<>>
       \/ zip_state = "finalized" /\ zip_entries = LeftoverContainer(docpack)
    /\ writer_pc = "start"
    /\ read_result = NotRead
    /\ OtherThanDocpackOff

\* zipfile.ZipFile(output_path, 'w'): the file is created or truncated
WriteOpen ==
    /\ writer_pc = "start"
    /\ zip_state' = "writing"
    /\ zip_entries' = <<>>
    /\ writer_pc' = "writing"
    /\ UNCHANGED <<docpack, read_result>>
    /\ UNCHANGED <<splitVars, chunkerVars, clusterVars, schemaVars,
                   projectVars, intentVars, validateVars, pipelineVars,
                   raceVars, ingestVars>>

\* the next writestr of the with block
WriteRecord ==
    /\ writer_pc = "writing"
    /\ Len(zip_entries) < Len(WritePlan(docpack))
    /\ zip_entries' =
           Append(zip_entries, WritePlan(docpack)[Len(zip_entries) + 1])
    /\ UNCHANGED <<docpack, zip_state, writer_pc, read_result>>
    /\ UNCHANGED <<splitVars, chunkerVars, clusterVars, schemaVars,
                   projectVars, intentVars, validateVars, pipelineVars,
                   raceVars, ingestVars>>

\* the with block ends: ZipFile.close writes the central directory
WriteClose ==
    /\ writer_pc = "writing"
    /\ Len(zip_entries) = Len(WritePlan(docpack))
    /\ zip_state' = "finalized"
    /\ writer_pc' = "done"
    /\ UNCHANGED <<docpack, zip_entries, read_result>>
    /\ UNCHANGED <<splitVars, chunkerVars, clusterVars, schemaVars,
                   projectVars, intentVars, validateVars, pipelineVars,
                   raceVars, ingestVars>>

\* a statement of the with block raises: the with statement closes the
\* ZipFile, which writes the central directory of the members written so
\* far, and the exception propagates
WriteFails ==
    /\ writer_pc = "writing"
    /\ Len(zip_entries) < Len(WritePlan(docpack))
    /\ zip_state' = "finalized"
    /\ writer_pc' = "failed"
    /\ UNCHANGED <<docpack, zip_entries, read_result>>
    /\ UNCHANGED <<splitVars, chunkerVars, clusterVars, schemaVars,
                   projectVars, intentVars, validateVars, pipelineVars,
                   raceVars, ingestVars>>

\* load_docpack(output_path) by a reader, at any moment
LoadDocpack ==
    /\ writer_pc # "off"
    /\ read_result = NotRead
    /\ read_result' =
           [ReadDocpack(zip_state, zip_entries) EXCEPT !.at = writer_pc]
    /\ UNCHANGED <<docpack, zip_state, zip_entries, writer_pc>>
    /\ UNCHANGED <<splitVars, chunkerVars, clusterVars, schemaVars,
                   projectVars, intentVars, validateVars, pipelineVars,
                   raceVars, ingestVars>>

(* containers handed to the reader *)

\* the records of a container without the i-th (all of them for i = 0)
WithoutRecord(entries, i) ==
    SubSeq(entries, 1, i - 1) \o SubSeq(entries, i + 1, Len(entries))

\* load_docpack is called on a path where no file is, or where a container
\* is that holds the records of an Archive, all or all but one
InitReader ==
    /\ docpack \in Docpacks
    /\ \/ zip_state = "absent" /\ zip_entries = <<>>
       \/ /\ zip_state = "finalized"
          /\ \E i \in 0..Len(WritePlan(docpack)) :
               zip_entries = WithoutRecord(WritePlan(docpack), i)
    /\ writer_pc = "start"
    /\ read_result = NotRead
    /\ OtherThanDocpackOff

NextDocpack ==
    \/ WriteOpen
    \/ WriteRecord
    \/ WriteClose
    \/ WriteFails
    \/ LoadDocpack

-----------------------------------------------------------------------------
(* intent/schema_builder.py *)

\* A schema value is a type name (a str), a list of at most one schema
\* value, or a dict; a dict is the sequence of its (key, value) items, keys
\* being str (sequences of characters)
SName(n) == <<"name", n>>
SList(items) == <<"list", items>>
SDict(items) == <<"dict", items>>

OptionalMarker == "?"
WildcardKey == <<"*">>

\* key.endswith('?')
EndsWithMarker(key) == key # <<>> /\ key[Len(key)] = OptionalMarker

\* key.rstrip('?')
RECURSIVE RStripMarker(_)
RStripMarker(key) ==
    IF EndsWithMarker(key) THEN RStripMarker(SubSeq(key, 1, Len(key) - 1))
    ELSE key

CleanKey(key) == IF EndsWithMarker(key) THEN RStripMarker(key) ELSE key

\* "*" in value
HasWildcard(items) == \E i \in 1..Len(items) : items[i][1] = WildcardKey

WildcardValue(items) ==
    items[CHOOSE i \in 1..Len(items) : items[i][1] = WildcardKey][2]

\* type_map.get(value, str), for lower-case type names
TypeMap(n) == IF n \in {"str", "int", "float", "bool", "any"} THEN n ELSE "str"

RECURSIVE infer_type(_)
RECURSIVE ProcessFields(_, _)

\* the field definitions that build_model hands to create_model: a function
\* from clean key to the field's type and whether it is required; a later
\* item of the schema replaces an earlier one with the same clean key
ProcessFields(items, processed) ==
    IF items = <<>> THEN processed
    ELSE
        LET key == items[1][1]
            is_optional == EndsWithMarker(key)
            clean_key == CleanKey(key)
            field_type == infer_type(items[1][2])
            field == [type |-> IF is_optional
                               THEN <<"optional", field_type>>
                               ELSE field_type,
                      required |-> ~is_optional]
        IN  ProcessFields(Tail(items),
                [k \in DOMAIN processed \cup {clean_key} |->
                    IF k = clean_key THEN field ELSE processed[k]])

build_model(items) == <<"model", ProcessFields(items, <<>>)>>

infer_type(value) ==
    IF value[1] = "list"
    THEN IF value[2] = <<>> THEN <<"list">>
         ELSE <<"list", infer_type(value[2][1])>>
    ELSE IF value[1] = "dict"
    THEN IF HasWildcard(value[2])
         THEN <<"dict", infer_type(WildcardValue(value[2]))>>
         ELSE build_model(value[2])
    ELSE <<TypeMap(value[2])>>

\* pydantic validation of a parsed JSON value against a type
RECURSIVE TypeValid(_, _)
TypeValid(type, j) ==
    CASE type[1] = "optional" -> j[1] = "null" \/ TypeValid(type[2], j)
      [] type[1] = "any" -> TRUE
      [] type[1] = "str" -> j[1] = "str"
      [] type[1] \in {"int", "float"} -> j[1] = "num"
      [] type[1] = "bool" -> j[1] = "bool"
      [] type[1] = "list" ->
            /\ j[1] = "list"
            /\ Len(type) = 1 \/ \A i \in 1..Len(j[2]) : TypeValid(type[2], j[2][i])
      [] type[1] = "dict" ->
            /\ j[1] = "obj"
            /\ \A i \in 1..Len(j[2]) : TypeValid(type[2], j[2][i][2])
      [] type[1] = "model" ->
            /\ j[1] = "obj"
            /\ \A k \in DOMAIN type[2] :
                  IF JHas(j, k) THEN TypeValid(type[2][k].type, JGet(j, k))
                  ELSE ~type[2][k].required

\* Model.model_validate_json(result_json) returns rather than raises
ModelAccepts(model, j) == TypeValid(model, j)

(* schemas and objects *)

TopicKey == <<"t", "o", "p", "i", "c">>
TagsKey == <<"t", "a", "g", "s">>
NoteKey == <<"n", "o", "t", "e">>

\* the declarations a schema is made of: the summary schema
\* {topic: str, tags: [str], note?: str} and an optional topic
Declarations ==
    { <<TopicKey, SName("str")>>,
      <<Append(TopicKey, OptionalMarker), SName("str")>>,
      <<TagsKey, SList(<<SName("str")>>)>>,
      <<Append(NoteKey, OptionalMarker), SName("str")>> }

\* dicts of at most n declarations with distinct keys, in any order
Schemas(n) ==
    { items \in UNION { [1..m -> Declarations] : m \in 1..n } :
        \A i, k \in 1..Len(items) : i # k => items[i][1] # items[k][1] }

FieldValues ==
    { JNull, JStr("a"), JNum(1), JList(<<JStr("a")>>), JList(<<JNum(1)>>) }

\* JSON objects over the field names, each absent or with one of the values
Objects ==
    { JObj(pairs) :
        pairs \in { topic \o tags \o note :
                      topic \in {<<>>} \cup { << <<TopicKey, v>> >> : v \in FieldValues },
                      tags \in {<<>>} \cup { << <<TagsKey, v>> >> : v \in FieldValues },
                      note \in {<<>>} \cup { << <<NoteKey, v>> >> : v \in FieldValues } } }

InitSchema ==
    /\ fields \in Schemas(MaxFields)
    /\ instance \in Objects
    /\ model_pc = "built"
    /\ accepted = FALSE
    /\ OtherThanSchemaOff

\* build_model(name, fields).model_validate_json(instance) returns
ValidateAccepts ==
    /\ model_pc = "built"
    /\ ModelAccepts(build_model(fields), instance)
    /\ model_pc' = "validated"
    /\ accepted' = TRUE
    /\ UNCHANGED <<fields, instance>>
    /\ UNCHANGED <<splitVars, chunkerVars, clusterVars, docpackVars,
                   projectVars, intentVars, validateVars, pipelineVars,
                   raceVars, ingestVars>>

\* build_model(name, fields).model_validate_json(instance) raises
\* ValidationError
ValidateRejects ==
    /\ model_pc = "built"
    /\ ~ModelAccepts(build_model(fields), instance)
    /\ model_pc' = "validated"
    /\ accepted' = FALSE
    /\ UNCHANGED <<fields, instance>>
    /\ UNCHANGED <<splitVars, chunkerVars, clusterVars, docpackVars,
                   projectVars, intentVars, validateVars, pipelineVars,
                   raceVars, ingestVars>>

NextSchema == ValidateAccepts \/ ValidateRejects

-----------------------------------------------------------------------------
(* intent/orchestrator.py: summarize_project *)

PreviewLen == 500

\* text[:n]
Prefix(str, n) == SubSeq(str, 1, IF Len(str) < n THEN Len(str) ELSE n)

\* the summary blocks of the clusters that have a truthy summary
RECURSIVE ClusterSummariesText(_)
ClusterSummariesText(cs) ==
    IF cs = <<>> THEN <<>>
    ELSE (IF cs[1].summary # None /\ cs[1].summary[1] # <<>>
          THEN <<[cluster |-> cs[1].cluster_id, items |-> cs[1].summary[1]]>>
          ELSE <<>>)
         \o ClusterSummariesText(Tail(cs))

\* the "Dataset Metrics" block
MetricsText(manifest) ==
    [files |-> manifest.file_count,
     chunks |-> manifest.chunk_count,
     clusters |-> manifest.cluster_count,
     total_tokens |-> manifest.total_tokens,
     embedding_dimension |-> manifest.embedding_dim]

\* next((c for c in chunks if c.chunk_id == chunk_id), None)
FirstChunkWithId(cs, chunk_id) ==
    IF \E i \in 1..Len(cs) : cs[i].chunk_id = chunk_id
    THEN Some(cs[CHOOSE i \in 1..Len(cs) :
                    /\ cs[i].chunk_id = chunk_id
                    /\ \A k \in 1..(i - 1) : cs[k].chunk_id # chunk_id])
    ELSE None

\* one sample per cluster: the first member chunk's file and text preview
RECURSIVE RepresentativeChunks(_, _)
RepresentativeChunks(cs, all_chunks) ==
    IF cs = <<>> THEN <<>>
    ELSE
        LET chunk == IF cs[1].chunk_ids = <<>> THEN None
                     ELSE FirstChunkWithId(all_chunks, cs[1].chunk_ids[1])
        IN  (IF chunk # None
             THEN <<[cluster |-> cs[1].cluster_id,
                     file |-> chunk[1].file_path,
                     text |-> Prefix(chunk[1].text, PreviewLen)]>>
             ELSE <<>>)
            \o RepresentativeChunks(Tail(cs), all_chunks)

\* make_structured_project_prompt: the text made of the four parts
make_structured_project_prompt(cluster_summaries, metrics, representative_samples, schema) ==
    [cluster_summaries |-> cluster_summaries,
     metrics |-> metrics,
     representative_samples |-> representative_samples,
     schema |-> schema]

NotCalled == [status |-> "none", user |-> <<>>, schema |-> <<>>]

\* summarize_project(clusters, chunks, intent, manifest) up to call_llm:
\* the ValueError, or the prompt and the schema handed to call_llm
summarize_project(args) ==
    IF args.intent.project_schema = None
    THEN [status |-> "ValueError", user |-> <<>>, schema |-> <<>>]
    ELSE [status |-> "call_llm",
          user |-> make_structured_project_prompt(
                       ClusterSummariesText(args.clusters),
                       MetricsText(args.manifest),
                       RepresentativeChunks(args.clusters, args.chunks),
                       args.intent.project_schema[1]),
          schema |-> build_model(args.intent.project_schema[1])]

(* arguments of summarize_project *)

ProjectClusters ==
    { <<[cluster_id |-> 0, chunk_ids |-> chunk_ids, centroid |-> centroid,
         summary |-> summary]>> :
        chunk_ids \in {<<>>, <<0>>},
        centroid \in {<<0>>, <<12>>},
        summary \in {None, Some(<< <<"topic", "parsing">> >>)} }

ProjectChunks ==
    { <<MakeChunk(0, FilePath(i), <<chunk_text, 0, 0>>, <<0>>)>> :
        i \in 1..2,
        chunk_text \in {<<"a", "b", "c", "d">>, <<"s", "t", "u", "v">>} }

ProjectManifests ==
    { [DocManifest(<<0>>, <<0>>, FALSE)
          EXCEPT !.source_identifier = source_identifier,
                 !.total_tokens = total_tokens] :
        source_identifier \in {"a.zip", "b.zip"},
        total_tokens \in {1, 2} }

ProjectIntents ==
    { [name |-> "docs", project_schema |-> project_schema] :
        project_schema \in
            {None, Some(<< <<TopicKey, SName("str")>> >>)} }

ProjectArgs ==
    [clusters : ProjectClusters, chunks : ProjectChunks,
     intent : ProjectIntents, manifest : ProjectManifests]

ProjectRuns == 1..2

InitProject ==
    /\ project_args \in [ProjectRuns -> ProjectArgs]
    /\ project_calls = [r \in ProjectRuns |-> NotCalled]
    /\ OtherThanProjectOff

SummarizeProject(r) ==
    /\ project_calls # <<>>
    /\ project_calls[r].status = "none"
    /\ project_calls' =
           [project_calls EXCEPT ![r] = summarize_project(project_args[r])]
    /\ UNCHANGED project_args
    /\ UNCHANGED <<splitVars, chunkerVars, clusterVars, docpackVars,
                   schemaVars, intentVars, validateVars, pipelineVars,
                   raceVars, ingestVars>>

NextProject == \E r \in ProjectRuns : SummarizeProject(r)

-----------------------------------------------------------------------------
(* intent/orchestrator.py: summarize_cluster and apply_intent *)

\* seq[:n] of Python, n of either sign
PySlicePrefix(seq, n) ==
    IF n >= 0
    THEN SubSeq(seq, 1, IF Len(seq) < n THEN Len(seq) ELSE n)
    ELSE SubSeq(seq, 1, IF Len(seq) + n < 0 THEN 0 ELSE Len(seq) + n)

\* chunk_id in cluster.chunk_ids
InChunkIds(chunk_id, chunk_ids) ==
    \E i \in 1..Len(chunk_ids) : chunk_ids[i] = chunk_id

\* mutation of ClusterChunkTexts: the member chunks are not cut
ClusterChunkTextsAll(cluster, all_chunks, max_chunks_per_cluster) ==
    LET cluster_chunks ==
            SelectSeq(all_chunks,
                      LAMBDA c : InChunkIds(c.chunk_id, cluster.chunk_ids))
    IN  [i \in 1..Len(cluster_chunks) |-> cluster_chunks[i].text]

\* the texts that summarize_cluster puts in the prompt: the chunks of the
\* chunk list that are members of the cluster, cut to
\* [:max_chunks_per_cluster] when there are more
ClusterChunkTexts(cluster, all_chunks, max_chunks_per_cluster) ==
    LET cluster_chunks ==
            SelectSeq(all_chunks,
                      LAMBDA c : InChunkIds(c.chunk_id, cluster.chunk_ids))
        limited ==
            IF Len(cluster_chunks) > max_chunks_per_cluster
            THEN PySlicePrefix(cluster_chunks, max_chunks_per_cluster)
            ELSE cluster_chunks
    IN  [i \in 1..Len(limited) |-> limited[i].text]

\* make_structured_cluster_prompt: the text made of the three parts
make_structured_cluster_prompt(cluster_id, chunk_texts, schema) ==
    [cluster_id |-> cluster_id, chunks |-> chunk_texts, schema |-> schema]

\* the clean keys of a schema in the order build_model first meets them,
\* which is the order of the fields of the model
RECURSIVE FieldOrder(_, _)
FieldOrder(items, seen) ==
    IF items = <<>> THEN seen
    ELSE LET k == CleanKey(items[1][1])
         IN  FieldOrder(Tail(items),
                        IF \E i \in 1..Len(seen) : seen[i] = k
                        THEN seen ELSE Append(seen, k))

\* Model.model_validate_json(j).model_dump() of an accepted j: a dict with
\* every field of the model, None for an optional field that j omits
ModelDump(items, j) ==
    LET order == FieldOrder(items, <<>>)
    IN  [i \in 1..Len(order) |->
            <<order[i], IF JHas(j, order[i]) THEN JGet(j, order[i]) ELSE JNull>>]

\* mutation of ValidateJson: a nonconforming object is defaulted
ValidateJsonDefaulting(items, j) == Some(ModelDump(items, j))

\* build_model(name, schema).model_validate_json(j).model_dump(): the dict,
\* or None when model_validate_json raises ValidationError
ValidateJson(items, j) ==
    IF ModelAccepts(build_model(items), j) THEN Some(ModelDump(items, j))
    ELSE None

\* mutation of RequestsProject: allow_global_summary is not looked at
RequestsProjectAlways(intent) == intent.project_schema # None

\* intent.has_project_schema() and intent.allow_global_summary
RequestsProject(intent) ==
    intent.project_schema # None /\ intent.allow_global_summary

\* mutation of ClusterLoopDone: the loop is left after its first cluster
ClusterLoopDoneEarly(intent, i, cs) ==
    intent.cluster_schema = None \/ i > 1 \/ i > Len(cs)

\* step 1 of apply_intent is over: no cluster schema, or every cluster done
ClusterLoopDone(intent, i, cs) ==
    intent.cluster_schema = None \/ i > Len(cs)

(* arguments of apply_intent *)

SummarySchema ==
    << <<TopicKey, SName("str")>>,
       <<Append(NoteKey, OptionalMarker), SName("str")>> >>

\* what the generation capability can return for SummarySchema: conforming
\* objects, and objects that lack topic or have a number for it
GeneratedObjects ==
    { JObj(<< <<TopicKey, JStr("a")>> >>),
      JObj(<< <<TopicKey, JStr("b")>>, <<NoteKey, JNull>> >>),
      JObj(<<>>),
      JObj(<< <<TopicKey, JNum(1)>> >>) }

Intents ==
    [name : {"docs"},
     cluster_schema : {None, Some(SummarySchema)},
     project_schema : {None, Some(SummarySchema)},
     allow_global_summary : BOOLEAN,
     max_chunks_per_cluster : 0..MaxPerCluster]

\* n chunks with ids 0..n-1, as chunk_documents numbers them
IntentChunks(n) ==
    [i \in 1..n |->
        MakeChunk(i - 1, FilePath(1), <<<<"t", DigitChars[i]>>, 0, 0>>, <<0>>)]

\* the chunks and the clusters as cluster_chunks returns them for a
\* labelling of n chunks with k labels
ClusteredChunks(n, k) ==
    { [chunks |-> labelled,
       clusters |-> [c \in 1..k |-> BuildCluster(labelled, c - 1)]] :
        labelled \in
            { [i \in 1..n |->
                 [IntentChunks(n)[i] EXCEPT !.cluster_id = Some(labels[i])]] :
              labels \in [1..n -> 0..(k - 1)] } }

IntentInputs ==
    {[chunks |-> <<>>, clusters |-> <<>>]}
    \cup UNION { ClusteredChunks(n, k) :
                   n \in 1..MaxIntentChunks, k \in 1..2 }

IntentManifest(cs, ks) ==
    [DocManifest(cs, ks, FALSE) EXCEPT !.embedding_dim = 1]

InitIntent ==
    /\ ai_intent \in Intents
    /\ \E in \in IntentInputs :
          /\ Len(in.clusters) <= Len(in.chunks)
          /\ ai_chunks = in.chunks
          /\ ai_clusters = in.clusters
    /\ ai_pc = "clusters"
    /\ ai_i = 1
    /\ ai_calls = <<>>
    /\ ai_docpack = None
    /\ OtherThanIntentOff

\* the Docpack that apply_intent builds
BuildDocpack(project_summary) ==
    [manifest |-> IntentManifest(ai_chunks, ai_clusters),
     intent_spec |-> ai_intent,
     chunks |-> ai_chunks,
     clusters |-> ai_clusters,
     project_summary |-> project_summary,
     raw_files |-> None]

\* summarize_cluster(clusters[i]) up to its call_llm
SummarizeClusterCall ==
    /\ ai_pc = "clusters"
    /\ ~ClusterLoopDone(ai_intent, ai_i, ai_clusters)
    /\ ai_calls' =
           Append(ai_calls,
                  [level |-> "cluster",
                   cluster_id |-> ai_clusters[ai_i].cluster_id,
                   user |-> make_structured_cluster_prompt(
                                ai_clusters[ai_i].cluster_id,
                                ClusterChunkTexts(
                                    ai_clusters[ai_i], ai_chunks,
                                    ai_intent.max_chunks_per_cluster),
                                ai_intent.cluster_schema[1]),
                   schema |-> build_model(ai_intent.cluster_schema[1]),
                   returned |-> None])
    /\ ai_pc' = "cluster_call"
    /\ UNCHANGED <<ai_intent, ai_chunks, ai_clusters, ai_i, ai_docpack>>
    /\ UNCHANGED <<splitVars, chunkerVars, clusterVars, docpackVars,
                   schemaVars, projectVars, validateVars, pipelineVars,
                   raceVars, ingestVars>>

\* call_llm returns j to summarize_cluster: the validated dict becomes
\* clusters[i].summary, or ValidationError leaves apply_intent
SummarizeClusterReturn ==
    /\ ai_pc = "cluster_call"
    /\ \E j \in GeneratedObjects :
          LET summary == ValidateJson(ai_intent.cluster_schema[1], j)
          IN  /\ ai_calls' =
                     [ai_calls EXCEPT ![Len(ai_calls)].returned = Some(j)]
              /\ IF summary = None
                 THEN /\ ai_pc' = "raised"
                      /\ UNCHANGED <<ai_clusters, ai_i>>
                 ELSE /\ ai_clusters' =
                             [ai_clusters EXCEPT ![ai_i].summary = summary]
                      /\ ai_i' = ai_i + 1
                      /\ ai_pc' = "clusters"
    /\ UNCHANGED <<ai_intent, ai_chunks, ai_docpack>>
    /\ UNCHANGED <<splitVars, chunkerVars, clusterVars, docpackVars,
                   schemaVars, projectVars, validateVars, pipelineVars,
                   raceVars, ingestVars>>

\* summarize_project up to its call_llm, once step 1 is over
SummarizeProjectCall ==
    /\ ai_pc = "clusters"
    /\ ClusterLoopDone(ai_intent, ai_i, ai_clusters)
    /\ RequestsProject(ai_intent)
    /\ LET call == summarize_project(
                       [clusters |-> ai_clusters, chunks |-> ai_chunks,
                        intent |-> ai_intent,
                        manifest |-> IntentManifest(ai_chunks, ai_clusters)])
       IN  ai_calls' =
               Append(ai_calls,
                      [level |-> "project", cluster_id |-> 0 - 1,
                       user |-> call.user, schema |-> call.schema,
                       returned |-> None])
    /\ ai_pc' = "project_call"
    /\ UNCHANGED <<ai_intent, ai_chunks, ai_clusters, ai_i, ai_docpack>>
    /\ UNCHANGED <<splitVars, chunkerVars, clusterVars, docpackVars,
                   schemaVars, projectVars, validateVars, pipelineVars,
                   raceVars, ingestVars>>

\* call_llm returns j to summarize_project: the validated dict becomes the
\* project_summary of the Docpack, or ValidationError leaves apply_intent
SummarizeProjectReturn ==
    /\ ai_pc = "project_call"
    /\ \E j \in GeneratedObjects :
          LET summary == ValidateJson(ai_intent.project_schema[1], j)
          IN  /\ ai_calls' =
                     [ai_calls EXCEPT ![Len(ai_calls)].returned = Some(j)]
              /\ IF summary = None
                 THEN /\ ai_pc' = "raised"
                      /\ UNCHANGED ai_docpack
                 ELSE /\ ai_docpack' = Some(BuildDocpack(summary[1]))
                      /\ ai_pc' = "done"
    /\ UNCHANGED <<ai_intent, ai_chunks, ai_clusters, ai_i>>
    /\ UNCHANGED <<splitVars, chunkerVars, clusterVars, docpackVars,
                   schemaVars, projectVars, validateVars, pipelineVars,
                   raceVars, ingestVars>>

\* no project summary is requested: project_summary = {}
SkipProjectSummary ==
    /\ ai_pc = "clusters"
    /\ ClusterLoopDone(ai_intent, ai_i, ai_clusters)
    /\ ~RequestsProject(ai_intent)
    /\ ai_docpack' = Some(BuildDocpack(<<>>))
    /\ ai_pc' = "done"
    /\ UNCHANGED <<ai_intent, ai_chunks, ai_clusters, ai_i, ai_calls>>
    /\ UNCHANGED <<splitVars, chunkerVars, clusterVars, docpackVars,
                   schemaVars, projectVars, validateVars, pipelineVars,
                   raceVars, ingestVars>>

\* call_llm raises (the capability fails, or returns no content)
CallLlmFails ==
    /\ ai_pc \in {"cluster_call", "project_call"}
    /\ ai_pc' = "raised"
    /\ UNCHANGED <<ai_intent, ai_chunks, ai_clusters, ai_i, ai_calls,
                   ai_docpack>>
    /\ UNCHANGED <<splitVars, chunkerVars, clusterVars, docpackVars,
                   schemaVars, projectVars, validateVars, pipelineVars,
                   raceVars, ingestVars>>

NextIntent ==
    \/ SummarizeClusterCall
    \/ SummarizeClusterReturn
    \/ SummarizeProjectCall
    \/ SummarizeProjectReturn
    \/ SkipProjectSummary
    \/ CallLlmFails

-----------------------------------------------------------------------------
(* validate_schema (intent/schema_builder.py) *)

\* a mapping key that is not a str, as YAML gives for the key 1
NonStrKey == <<"int 1">>

\* key.endswith exists: the key is a str
IsStrKey(key) == key # NonStrKey

RECURSIVE BuildModelRaises(_)
RECURSIVE InferTypeRaises(_)

\* build_model(name, fields) raises: key.endswith('?') raises AttributeError
\* on a key that is not a str, or infer_type(val) raises
BuildModelRaises(items) ==
    \E i \in 1..Len(items) :
        ~IsStrKey(items[i][1]) \/ InferTypeRaises(items[i][2])

\* infer_type(value) raises: it looks at the first element of a list, at
\* the "*" value of a dict that has one, and builds a model of any other dict
InferTypeRaises(value) ==
    IF value[1] = "list"
    THEN value[2] # <<>> /\ InferTypeRaises(value[2][1])
    ELSE IF value[1] = "dict"
    THEN IF HasWildcard(value[2])
         THEN InferTypeRaises(WildcardValue(value[2]))
         ELSE BuildModelRaises(value[2])
    ELSE FALSE

\* isinstance(schema, dict)
IsMapping(schema) == schema[1] = "dict"

ValueError(message) == <<"ValueError", message>>
Returned(value) == <<"returned", value>>

\* mutation of validate_schema: the model is not built
validate_schema_unbuilt(schema) ==
    IF ~IsMapping(schema) THEN ValueError("Schema must be a dict")
    ELSE IF Len(schema[2]) = 0 THEN ValueError("Schema cannot be empty")
    ELSE Returned(TRUE)

validate_schema(schema) ==
    IF ~IsMapping(schema) THEN ValueError("Schema must be a dict")
    ELSE IF Len(schema[2]) = 0 THEN ValueError("Schema cannot be empty")
    ELSE IF BuildModelRaises(schema[2]) THEN ValueError("Invalid schema")
    ELSE Returned(TRUE)

MetaKey == <<"m", "e", "t", "a">>
RefsKey == <<"r", "e", "f", "s">>
PartsKey == <<"p", "a", "r", "t", "s">>

\* declarations on which build_model raises
FailingDeclarations ==
    { <<NonStrKey, SName("str")>>,
      <<MetaKey, SDict(<< <<NonStrKey, SName("int")>> >>)>>,
      <<PartsKey, SList(<<SDict(<< <<NonStrKey, SName("str")>> >>)>>)>> }

\* declarations of nested values that build_model accepts: a "*" dict, whose
\* other keys are not looked at, and a nested schema
NestedDeclarations ==
    { <<RefsKey, SDict(<< <<WildcardKey, SList(<<SName("str")>>)>>,
                          <<NonStrKey, SName("str")>> >>)>>,
      <<Append(MetaKey, OptionalMarker),
        SDict(<< <<TopicKey, SName("int")>> >>)>> }

\* dicts of 1..n declarations with distinct keys, in any order
SchemasOver(declarations, n) ==
    { items \in UNION { [1..m -> declarations] : m \in 1..n } :
        \A i, k \in 1..Len(items) : i # k => items[i][1] # items[k][1] }

\* values that are not mappings: a str, a list, an empty list
NonMappings == { SName("str"), SList(<<SName("str")>>), SList(<<>>) }

\* the values validate_schema is called with
SchemaValues ==
    { SDict(items) :
        items \in SchemasOver(Declarations \cup FailingDeclarations
                                  \cup NestedDeclarations, MaxFields) }
        \cup { SDict(<<>>) } \cup NonMappings

InitValidate ==
    /\ vs_schema \in SchemaValues
    /\ vs_pc = "called"
    /\ vs_result = <<>>
    /\ OtherThanValidateOff

\* validate_schema(schema) returns True or raises ValueError
ValidateSchema ==
    /\ vs_pc = "called"
    /\ vs_result' = validate_schema(vs_schema)
    /\ vs_pc' = "ended"
    /\ UNCHANGED vs_schema
    /\ UNCHANGED <<splitVars, chunkerVars, clusterVars, docpackVars,
                   schemaVars, projectVars, intentVars, pipelineVars,
                   raceVars, ingestVars>>

-----------------------------------------------------------------------------
(* run_pipeline (pipeline.py), run twice *)

Runs == {1, 2}

\* PipelineConfig(): the defaults run_pipeline uses when no config is given
DefaultChunkSizeTokens == 500
DefaultChunkOverlapTokens == 50
DefaultNumClusters == 10
DefaultClusteringMethod == "kmeans"

\* a schema that has a nested schema with a key that is not a str
NestedBadSchema ==
    << <<TopicKey, SName("str")>>,
       <<MetaKey, SDict(<< <<NonStrKey, SName("int")>> >>)>> >>

\* the schema values an intent file gives: none, a schema that compiles, a
\* schema that does not, an empty mapping, a list
SchemaEntries ==
    { None, Some(SDict(SummarySchema)), Some(SDict(NestedBadSchema)),
      Some(SDict(<<>>)), Some(SList(<<SName("str")>>)) }

\* what yaml.safe_load gives for the intent files
IntentFiles ==
    [cluster_schema : SchemaEntries,
     project_schema : { None, Some(SDict(SummarySchema)),
                        Some(SDict(NestedBadSchema)) },
     allow_global_summary : BOOLEAN]

\* IntentSpec(**data) raises for a schema entry: pydantic rejects a value
\* that is not a Dict[str, Any], the field validator an empty dict
SchemaEntryRejected(v) ==
    v # None /\ (~IsMapping(v[1]) \/ Len(v[1][2]) = 0)

\* IntentSpec.from_yaml raises
LoadRejects(data) ==
    SchemaEntryRejected(data.cluster_schema)
        \/ SchemaEntryRejected(data.project_schema)

\* the schema of an entry is invalid: not a mapping, empty, or one that
\* build_model fails on
SchemaEntryInvalid(v) ==
    v # None /\ (~IsMapping(v[1]) \/ Len(v[1][2]) = 0
                    \/ BuildModelRaises(v[1][2]))

\* the files of a source archive: one line of text, or white space only
SourceData == { <<"a", "b", "c", "d">>, <<" ">> }

RECURSIVE SourcesOf(_)
SourcesOf(m) ==
    IF m = 0 THEN { <<>> }
    ELSE { Append(v, [path |-> FilePath(m), data |-> d]) :
             d \in SourceData, v \in SourcesOf(m - 1) }

Sources == UNION { SourcesOf(m) : m \in 0..MaxSourceFiles }

\* Chunker.chunk_vfs: the chunks of the files in order, ids counted from
\* counter; the chunk with id c gets the embedding embs[c]
RECURSIVE ChunkVfs(_, _, _, _, _)
ChunkVfs(files, size, ov, counter, embs) ==
    IF files = <<>> THEN <<>>
    ELSE LET decoded == Decode(files[1].data)
             tcs == IF IsBlank(decoded) THEN <<>>
                    ELSE split_text_by_tokens(decoded, size, ov)
             made == [i \in 1..Len(tcs) |->
                         MakeChunk(counter + i - 1, files[1].path, tcs[i],
                                   embs[counter + i - 1])]
         IN  made \o ChunkVfs(Tail(files), size, ov, counter + Len(tcs), embs)

\* sum(chunk.tokens for chunk in chunks)
RECURSIVE TotalTokens(_)
TotalTokens(cs) ==
    IF cs = <<>> THEN 0 ELSE cs[1].tokens + TotalTokens(Tail(cs))

\* mutation of RunMetrics: the chunks are counted as the files are
RunMetricsByFile(files, cs, ks) ==
    [file_count |-> Len(files),
     chunk_count |-> Len(files),
     cluster_count |-> Len(ks),
     total_tokens |-> TotalTokens(cs),
     embedding_dim |-> IF cs # <<>> THEN Len(cs[1].embedding) ELSE 0]

\* the run metrics of the DocpackManifest that run_pipeline builds
RunMetrics(files, cs, ks) ==
    [file_count |-> Len(files),
     chunk_count |-> Len(cs),
     cluster_count |-> Len(ks),
     total_tokens |-> TotalTokens(cs),
     embedding_dim |-> IF cs # <<>> THEN Len(cs[1].embedding) ELSE 0]

\* the embedding capability's answers in a run: vectors of one length, and
\* one of another length
RunEmbeddings == Embeddings \cup { <<0, 12>> }

\* np.array(...) of embeddings of different lengths is no matrix: the
\* clustering call raises ValueError
Ragged(cs) == \E i, j \in 1..Len(cs) : Len(cs[i].embedding) # Len(cs[j].embedding)

\* chunk.cluster_id = int(label), for every chunk
AssignLabels(cs, labels) ==
    [i \in 1..Len(cs) |-> [cs[i] EXCEPT !.cluster_id = Some(labels[i])]]

\* mutation of StoreSummary: the centroid is dropped with it
StoreSummaryOnly(cluster, summary) ==
    [cluster EXCEPT !.summary = Some(summary), !.centroid = <<>>]

\* cluster.summary = summarize_cluster(...)
StoreSummary(cluster, summary) == [cluster EXCEPT !.summary = Some(summary)]

\* the object the generation capability returns when it conforms
GeneratedSummary == JObj(<< <<TopicKey, JStr("a")>> >>)

\* the runs follow one another
MayStep(r) == r = 1 \/ pl_pc[1] \in {"done", "raised"}

InitPipeline ==
    /\ pl_intent_yaml \in IntentFiles
    /\ pl_source \in [Runs -> Sources]
    /\ pl_pc = [r \in Runs |-> "load"]
    /\ pl_intent = [r \in Runs |-> None]
    /\ pl_vfs = [r \in Runs |-> <<>>]
    /\ pl_chunks = [r \in Runs |-> <<>>]
    /\ pl_clusters = [r \in Runs |-> <<>>]
    /\ pl_manifest = [r \in Runs |-> None]
    /\ pl_work = [r \in Runs |-> {}]
    /\ pl_i = [r \in Runs |-> 1]
    /\ OtherThanPipelineOff

\* intent = IntentSpec.from_yaml(intent_yaml)
LoadIntent(r) ==
    /\ MayStep(r)
    /\ pl_pc[r] = "load"
    /\ IF LoadRejects(pl_intent_yaml)
       THEN /\ pl_pc' = [pl_pc EXCEPT ![r] = "raised"]
            /\ UNCHANGED pl_intent
       ELSE /\ pl_pc' = [pl_pc EXCEPT ![r] = "ingest"]
            /\ pl_intent' = [pl_intent EXCEPT ![r] = Some(pl_intent_yaml)]
    /\ UNCHANGED <<pl_intent_yaml, pl_source, pl_vfs, pl_chunks, pl_clusters,
                   pl_manifest, pl_work, pl_i>>
    /\ UNCHANGED <<splitVars, chunkerVars, clusterVars, docpackVars,
                   schemaVars, projectVars, intentVars, validateVars,
                   raceVars, ingestVars>>

\* vfs = ingest(source)
Ingest(r) ==
    /\ MayStep(r)
    /\ pl_pc[r] = "ingest"
    /\ pl_vfs' = [pl_vfs EXCEPT ![r] = pl_source[r]]
    /\ pl_work' = [pl_work EXCEPT ![r] = @ \cup {"ingest"}]
    /\ pl_pc' = [pl_pc EXCEPT ![r] = "chunk"]
    /\ UNCHANGED <<pl_intent_yaml, pl_source, pl_intent, pl_chunks,
                   pl_clusters, pl_manifest, pl_i>>
    /\ UNCHANGED <<splitVars, chunkerVars, clusterVars, docpackVars,
                   schemaVars, projectVars, intentVars, validateVars,
                   raceVars, ingestVars>>

\* chunks = chunk_documents(vfs, ...): one embedding call per chunk
ChunkDocuments(r) ==
    /\ MayStep(r)
    /\ pl_pc[r] = "chunk"
    /\ \E embs \in [0..(MaxSourceFiles - 1) -> RunEmbeddings] :
         LET made == ChunkVfs(pl_vfs[r], DefaultChunkSizeTokens,
                              DefaultChunkOverlapTokens, 0, embs)
         IN  /\ pl_chunks' = [pl_chunks EXCEPT ![r] = made]
             /\ pl_work' =
                    [pl_work EXCEPT
                       ![r] = IF made # <<>> THEN @ \cup {"embed"} ELSE @]
    /\ pl_pc' = [pl_pc EXCEPT ![r] = "cluster"]
    /\ UNCHANGED <<pl_intent_yaml, pl_source, pl_intent, pl_vfs, pl_clusters,
                   pl_manifest, pl_i>>
    /\ UNCHANGED <<splitVars, chunkerVars, clusterVars, docpackVars,
                   schemaVars, projectVars, intentVars, validateVars,
                   raceVars, ingestVars>>

\* get_embedding raises RuntimeError for a chunk of the run
EmbeddingFailsInRun(r) ==
    /\ MayStep(r)
    /\ pl_pc[r] = "chunk"
    /\ \E f \in 1..Len(pl_vfs[r]) : ~IsBlank(Decode(pl_vfs[r][f].data))
    /\ pl_work' = [pl_work EXCEPT ![r] = @ \cup {"embed"}]
    /\ pl_pc' = [pl_pc EXCEPT ![r] = "raised"]
    /\ UNCHANGED <<pl_intent_yaml, pl_source, pl_intent, pl_vfs, pl_chunks,
                   pl_clusters, pl_manifest, pl_i>>
    /\ UNCHANGED <<splitVars, chunkerVars, clusterVars, docpackVars,
                   schemaVars, projectVars, intentVars, validateVars,
                   raceVars, ingestVars>>

\* cluster_documents raises: the embeddings are of different lengths
ClusteringFails(r) ==
    /\ MayStep(r)
    /\ pl_pc[r] = "cluster"
    /\ Ragged(pl_chunks[r])
    /\ pl_work' = [pl_work EXCEPT ![r] = @ \cup {"cluster"}]
    /\ pl_pc' = [pl_pc EXCEPT ![r] = "raised"]
    /\ UNCHANGED <<pl_intent_yaml, pl_source, pl_intent, pl_vfs, pl_chunks,
                   pl_clusters, pl_manifest, pl_i>>
    /\ UNCHANGED <<splitVars, chunkerVars, clusterVars, docpackVars,
                   schemaVars, projectVars, intentVars, validateVars,
                   raceVars, ingestVars>>

\* clusters = cluster_documents(chunks, ...), then the manifest is built
ClusterDocuments(r) ==
    /\ MayStep(r)
    /\ pl_pc[r] = "cluster"
    /\ ~Ragged(pl_chunks[r])
    /\ LET cs == pl_chunks[r]
           effective_clusters == EffectiveClusters(DefaultNumClusters, Len(cs))
           embeddings == [i \in 1..Len(cs) |-> cs[i].embedding]
       IN  IF cs = <<>>
           THEN /\ pl_clusters' = [pl_clusters EXCEPT ![r] = <<>>]
                /\ pl_manifest' =
                       [pl_manifest EXCEPT
                          ![r] = Some(RunMetrics(pl_vfs[r], cs, <<>>))]
                /\ UNCHANGED <<pl_chunks, pl_work>>
           ELSE \E labels \in Labelings(DefaultClusteringMethod, embeddings,
                                        effective_clusters) :
                  LET labelled == AssignLabels(cs, labels)
                      built == [c \in 1..effective_clusters |->
                                   BuildCluster(labelled, c - 1)]
                  IN  /\ pl_chunks' = [pl_chunks EXCEPT ![r] = labelled]
                      /\ pl_clusters' = [pl_clusters EXCEPT ![r] = built]
                      /\ pl_manifest' =
                             [pl_manifest EXCEPT
                                ![r] = Some(RunMetrics(pl_vfs[r], labelled,
                                                       built))]
                      /\ pl_work' = [pl_work EXCEPT ![r] = @ \cup {"cluster"}]
    /\ pl_pc' = [pl_pc EXCEPT ![r] = "apply"]
    /\ UNCHANGED <<pl_intent_yaml, pl_source, pl_intent, pl_vfs, pl_i>>
    /\ UNCHANGED <<splitVars, chunkerVars, clusterVars, docpackVars,
                   schemaVars, projectVars, intentVars, validateVars,
                   raceVars, ingestVars>>

\* apply_intent -> summarize_cluster or summarize_project: build_model raises
BuildModelFails(r) ==
    /\ MayStep(r)
    /\ \/ /\ pl_pc[r] = "apply"
          /\ ~ClusterLoopDone(pl_intent[r][1], pl_i[r], pl_clusters[r])
          /\ BuildModelRaises(pl_intent[r][1].cluster_schema[1][2])
       \/ /\ pl_pc[r] = "project"
          /\ BuildModelRaises(pl_intent[r][1].project_schema[1][2])
    /\ pl_pc' = [pl_pc EXCEPT ![r] = "raised"]
    /\ UNCHANGED <<pl_intent_yaml, pl_source, pl_intent, pl_vfs, pl_chunks,
                   pl_clusters, pl_manifest, pl_work, pl_i>>
    /\ UNCHANGED <<splitVars, chunkerVars, clusterVars, docpackVars,
                   schemaVars, projectVars, intentVars, validateVars,
                   raceVars, ingestVars>>

\* apply_intent: cluster.summary = summarize_cluster(...), the generation
\* call answered by a conforming object
SummarizeCluster(r) ==
    /\ MayStep(r)
    /\ pl_pc[r] = "apply"
    /\ ~ClusterLoopDone(pl_intent[r][1], pl_i[r], pl_clusters[r])
    /\ ~BuildModelRaises(pl_intent[r][1].cluster_schema[1][2])
    /\ pl_clusters' =
           [pl_clusters EXCEPT
              ![r][pl_i[r]] = StoreSummary(@, GeneratedSummary)]
    /\ pl_i' = [pl_i EXCEPT ![r] = @ + 1]
    /\ pl_work' = [pl_work EXCEPT ![r] = @ \cup {"generate"}]
    /\ UNCHANGED <<pl_intent_yaml, pl_source, pl_pc, pl_intent, pl_vfs,
                   pl_chunks, pl_manifest>>
    /\ UNCHANGED <<splitVars, chunkerVars, clusterVars, docpackVars,
                   schemaVars, projectVars, intentVars, validateVars,
                   raceVars, ingestVars>>

\* a generation call of apply_intent fails or is answered by an object that
\* does not conform
GenerationFails(r) ==
    /\ MayStep(r)
    /\ \/ /\ pl_pc[r] = "apply"
          /\ ~ClusterLoopDone(pl_intent[r][1], pl_i[r], pl_clusters[r])
          /\ ~BuildModelRaises(pl_intent[r][1].cluster_schema[1][2])
       \/ /\ pl_pc[r] = "project"
          /\ ~BuildModelRaises(pl_intent[r][1].project_schema[1][2])
    /\ pl_work' = [pl_work EXCEPT ![r] = @ \cup {"generate"}]
    /\ pl_pc' = [pl_pc EXCEPT ![r] = "raised"]
    /\ UNCHANGED <<pl_intent_yaml, pl_source, pl_intent, pl_vfs, pl_chunks,
                   pl_clusters, pl_manifest, pl_i>>
    /\ UNCHANGED <<splitVars, chunkerVars, clusterVars, docpackVars,
                   schemaVars, projectVars, intentVars, validateVars,
                   raceVars, ingestVars>>

\* apply_intent leaves the cluster loop
ClustersSummarized(r) ==
    /\ MayStep(r)
    /\ pl_pc[r] = "apply"
    /\ ClusterLoopDone(pl_intent[r][1], pl_i[r], pl_clusters[r])
    /\ pl_pc' = [pl_pc EXCEPT
                   ![r] = IF RequestsProject(pl_intent[r][1])
                          THEN "project" ELSE "save"]
    /\ UNCHANGED <<pl_intent_yaml, pl_source, pl_intent, pl_vfs, pl_chunks,
                   pl_clusters, pl_manifest, pl_work, pl_i>>
    /\ UNCHANGED <<splitVars, chunkerVars, clusterVars, docpackVars,
                   schemaVars, projectVars, intentVars, validateVars,
                   raceVars, ingestVars>>

\* project_summary = summarize_project(...), answered by a conforming object
SummarizeProjectOfRun(r) ==
    /\ MayStep(r)
    /\ pl_pc[r] = "project"
    /\ ~BuildModelRaises(pl_intent[r][1].project_schema[1][2])
    /\ pl_work' = [pl_work EXCEPT ![r] = @ \cup {"generate"}]
    /\ pl_pc' = [pl_pc EXCEPT ![r] = "save"]
    /\ UNCHANGED <<pl_intent_yaml, pl_source, pl_intent, pl_vfs, pl_chunks,
                   pl_clusters, pl_manifest, pl_i>>
    /\ UNCHANGED <<splitVars, chunkerVars, clusterVars, docpackVars,
                   schemaVars, projectVars, intentVars, validateVars,
                   raceVars, ingestVars>>

\* if output_path: save_docpack(docpack, output_path); run_pipeline returns
\* the Docpack
SaveDocpack(r) ==
    /\ MayStep(r)
    /\ pl_pc[r] = "save"
    /\ \E output_path \in {None, Some("out")} :
          pl_work' = [pl_work EXCEPT
                        ![r] = IF output_path # None
                               THEN @ \cup {"write"} ELSE @]
    /\ pl_pc' = [pl_pc EXCEPT ![r] = "done"]
    /\ UNCHANGED <<pl_intent_yaml, pl_source, pl_intent, pl_vfs, pl_chunks,
                   pl_clusters, pl_manifest, pl_i>>
    /\ UNCHANGED <<splitVars, chunkerVars, clusterVars, docpackVars,
                   schemaVars, projectVars, intentVars, validateVars,
                   raceVars, ingestVars>>

\* the steps of one run
RunStep(r) ==
    \/ LoadIntent(r)
    \/ Ingest(r)
    \/ ChunkDocuments(r)
    \/ EmbeddingFailsInRun(r)
    \/ ClusterDocuments(r)
    \/ ClusteringFails(r)
    \/ BuildModelFails(r)
    \/ SummarizeCluster(r)
    \/ GenerationFails(r)
    \/ ClustersSummarized(r)
    \/ SummarizeProjectOfRun(r)
    \/ SaveDocpack(r)

\* one run: the second never starts
InitRun ==
    /\ InitPipeline
    /\ pl_source[2] = <<>>

NextRun == RunStep(1)

NextPipeline == \E r \in Runs : RunStep(r)

-----------------------------------------------------------------------------
(* Chunker._chunk_file run by two threads on one Chunker *)

Threads == {1, 2}

\* each thread chunks one file, of 1..MaxThreadChunks text chunks; the
\* Chunker is new, its counter 0
InitRace ==
    /\ cc_counter = 0
    /\ cc_pc = [t \in Threads |-> "create"]
    /\ cc_left \in [Threads -> 1..MaxThreadChunks]
    /\ cc_tmp = [t \in Threads |-> 0]
    /\ cc_ids = [t \in Threads |-> <<>>]
    /\ OtherThanRaceOff

\* chunk = Chunk(chunk_id=self._chunk_id_counter, ...); chunks.append(chunk)
CreateChunkBy(t) ==
    /\ cc_pc[t] = "create"
    /\ cc_left[t] > 0
    /\ cc_ids' = [cc_ids EXCEPT ![t] = Append(@, cc_counter)]
    /\ cc_pc' = [cc_pc EXCEPT ![t] = "load"]
    /\ UNCHANGED <<cc_counter, cc_left, cc_tmp>>
    /\ UNCHANGED <<splitVars, chunkerVars, clusterVars, docpackVars,
                   schemaVars, projectVars, intentVars, validateVars,
                   pipelineVars, ingestVars>>

\* self._chunk_id_counter += 1: the value is loaded
LoadCounter(t) ==
    /\ cc_pc[t] = "load"
    /\ cc_tmp' = [cc_tmp EXCEPT ![t] = cc_counter]
    /\ cc_pc' = [cc_pc EXCEPT ![t] = "store"]
    /\ UNCHANGED <<cc_counter, cc_left, cc_ids>>
    /\ UNCHANGED <<splitVars, chunkerVars, clusterVars, docpackVars,
                   schemaVars, projectVars, intentVars, validateVars,
                   pipelineVars, ingestVars>>

\* self._chunk_id_counter += 1: the sum is stored; the loop goes on to the
\* next text chunk, or _chunk_file returns
StoreCounter(t) ==
    /\ cc_pc[t] = "store"
    /\ cc_counter' = ChunkIdAfter(cc_tmp[t])
    /\ cc_left' = [cc_left EXCEPT ![t] = @ - 1]
    /\ cc_pc' = [cc_pc EXCEPT
                   ![t] = IF cc_left[t] > 1 THEN "create" ELSE "returned"]
    /\ UNCHANGED <<cc_tmp, cc_ids>>
    /\ UNCHANGED <<splitVars, chunkerVars, clusterVars, docpackVars,
                   schemaVars, projectVars, intentVars, validateVars,
                   pipelineVars, ingestVars>>

NextRace ==
    \E t \in Threads : CreateChunkBy(t) \/ LoadCounter(t) \/ StoreCounter(t)

-----------------------------------------------------------------------------
(* Specifications *)

SpecSplit == InitSplit /\ [][SplitCall]_vars
SpecScenario == InitScenario /\ [][SplitCall]_vars

SpecChunker == InitChunker /\ [][NextChunker]_vars

SpecCluster == InitCluster /\ [][NextCluster]_vars
SpecDocpack == InitDocpack /\ [][NextDocpack]_vars
SpecReader == InitReader /\ [][LoadDocpack]_vars
SpecSchema == InitSchema /\ [][NextSchema]_vars
SpecProject == InitProject /\ [][NextProject]_vars
SpecIntent == InitIntent /\ [][NextIntent]_vars
SpecValidate == InitValidate /\ [][ValidateSchema]_vars
SpecPipeline == InitPipeline /\ [][NextPipeline]_vars
SpecRun == InitRun /\ [][NextRun]_vars
SpecRace == InitRace /\ [][NextRace]_vars

-----------------------------------------------------------------------------
(* ingest/ingest.py: ingest(source) *)

GithubPrefix ==
    <<"h", "t", "t", "p", "s", ":", "/", "/", "g", "i", "t", "h", "u", "b",
      ".", "c", "o", "m", "/">>

ZipSuffix == <<".", "z", "i", "p">>

\* how a source string can begin: the GitHub prefix and strings close to it
SourceHeads ==
    { GithubPrefix,
      SubSeq(GithubPrefix, 1, Len(GithubPrefix) - 1),
      <<" ">> \o GithubPrefix,
      <<"h", "t", "t", "p", ":", "/", "/", "g", "i", "t", "h", "u", "b",
        ".", "c", "o", "m", "/">>,
      <<"H", "T", "T", "P", "S", ":", "/", "/", "g", "i", "t", "h", "u", "b",
        ".", "c", "o", "m", "/">>,
      <<"i", "n", "v", "a", "l", "i", "d", ":", "/", "/">>,
      <<>> }

\* how a source string can end: the .zip suffix and strings close to it
SourceTails ==
    { ZipSuffix, <<".", "Z", "I", "P">>, <<"z", "i", "p">>,
      <<".", "z", "i">>, ZipSuffix \o <<" ">>, ZipSuffix \o <<"/">>, <<>> }

\* the strings of at most n characters over "o" and "/"
RECURSIVE SourceMiddles(_)
SourceMiddles(n) ==
    IF n = 0 THEN { <<>> }
    ELSE SourceMiddles(n - 1)
             \cup { Append(m, c) : m \in SourceMiddles(n - 1), c \in {"o", "/"} }

SourceStrings ==
    { h \o m \o t :
        h \in SourceHeads, m \in SourceMiddles(MaxMiddle), t \in SourceTails }

\* source.endswith(suffix)
EndsWith(name, suffix) ==
    /\ Len(name) >= Len(suffix)
    /\ SubSeq(name, Len(name) - Len(suffix) + 1, Len(name)) = suffix

\* url.rstrip("/")
RECURSIVE RStripSlash(_)
RStripSlash(url) ==
    IF url # <<>> /\ url[Len(url)] = "/"
    THEN RStripSlash(SubSeq(url, 1, Len(url) - 1))
    ELSE url

\* len(url.rstrip("/").split("/"))
NumParts(url) ==
    LET stripped == RStripSlash(url)
    IN  Cardinality({ i \in 1..Len(stripped) : stripped[i] = "/" }) + 1

IngestRaised(error) == [outcome |-> "raised", error |-> error]
IngestReturned == [outcome |-> "vfs", error |-> ""]

\* mutation of IsGithubSource: any source that starts with "http"
IsHttpSource(s) == StartsWith(s, SubSeq(GithubPrefix, 1, 4))

\* source.startswith("https://github.com/")
IsGithubSource(s) == StartsWith(s, GithubPrefix)

\* source.endswith(".zip")
IsZipSource(s) == EndsWith(s, ZipSuffix)

\* the entry of ingest
InitIngest ==
    /\ OtherThanIngestOff
    /\ source \in SourceStrings
    /\ ingest_result = [outcome |-> "none", error |-> ""]

\* the GitHub branch: parse_github_url raises IndexError on a URL without
\* owner and repository; the download or the archive may fail
IngestGithub ==
    /\ ingest_result.outcome = "none"
    /\ IsGithubSource(source)
    /\ IF NumParts(source) < 5
       THEN ingest_result' = IngestRaised("IndexError")
       ELSE ingest_result' \in
                { IngestRaised("HTTPError"), IngestRaised("BadZipFile"),
                  IngestReturned }
    /\ UNCHANGED source
    /\ UNCHANGED <<splitVars, chunkerVars, clusterVars, docpackVars,
                   schemaVars, projectVars, intentVars, validateVars,
                   pipelineVars, raceVars>>

\* the local archive branch: open or the archive may fail
IngestZip ==
    /\ ingest_result.outcome = "none"
    /\ ~IsGithubSource(source)
    /\ IsZipSource(source)
    /\ ingest_result' \in
           { IngestRaised("OSError"), IngestRaised("BadZipFile"),
             IngestReturned }
    /\ UNCHANGED source
    /\ UNCHANGED <<splitVars, chunkerVars, clusterVars, docpackVars,
                   schemaVars, projectVars, intentVars, validateVars,
                   pipelineVars, raceVars>>

\* raise ValueError(f"Unsupported ingest source: {source}")
IngestUnsupported ==
    /\ ingest_result.outcome = "none"
    /\ ~IsGithubSource(source)
    /\ ~IsZipSource(source)
    /\ ingest_result' = IngestRaised("ValueError")
    /\ UNCHANGED source
    /\ UNCHANGED <<splitVars, chunkerVars, clusterVars, docpackVars,
                   schemaVars, projectVars, intentVars, validateVars,
                   pipelineVars, raceVars>>

NextIngest == IngestGithub \/ IngestZip \/ IngestUnsupported

SpecIngest == InitIngest /\ [][NextIngest]_vars

-----------------------------------------------------------------------------
(* Chunking claims *)

\* the token counts of lines s..e (0-based, inclusive) summed
RECURSIVE SumTokens(_, _, _)
SumTokens(lines, s, e) ==
    IF s > e THEN 0
    ELSE (Len(lines[s + 1]) \div 4) + SumTokens(lines, s + 1, e)

\* C2: with overlap >= 0 the chunks of split_text_by_tokens cover every line
\* of the text with no gap: the first chunk starts at the first line, each
\* later chunk starts at most one line after the previous chunk's end, the
\* last chunk (the trailing buffer) ends at the last line, and every line
\* lies in some chunk's range.
C2_ChunksCoverEveryLine ==
    (split_pc = "returned" /\ overlap >= 0) =>
        LET r == split_result
            n == NumLines(text)
        IN  /\ r # <<>>
            /\ r[1][2] = 0
            /\ \A i \in 2..Len(r) : r[i][2] <= r[i - 1][3] + 1
            /\ r[Len(r)][3] = n - 1
            /\ \A j \in 0..(n - 1) :
                 \E i \in 1..Len(r) : r[i][2] <= j /\ j <= r[i][3]

\* C2 witness: a text split into three or more chunks, one of which starts
\* right after its predecessor's end and one of which overlaps it
C2_Witness ==
    /\ split_pc = "returned" /\ overlap >= 0
    /\ Len(split_result) >= 3
    /\ \E i \in 2..Len(split_result) :
         split_result[i][2] = split_result[i - 1][3] + 1
    /\ \E i \in 2..Len(split_result) :
         split_result[i][2] <= split_result[i - 1][3]

\* C3: with overlap >= 0, the lines two consecutive chunks share (from the
\* later chunk's start line to the earlier chunk's end line) are whole source
\* lines (each chunk's text is its line range joined by newlines) and their
\* token counts len(line)//4 sum to at most the overlap budget.
C3_OverlapWithinBudget ==
    (split_pc = "returned" /\ overlap >= 0) =>
        LET r == split_result
            lines == Split(text)
        IN  /\ \A i \in 1..Len(r) :
                 /\ 0 <= r[i][2] /\ r[i][3] < Len(lines)
                 /\ r[i][1] = Join(SubSeq(lines, r[i][2] + 1, r[i][3] + 1),
                                   <<NL>>)
            /\ \A i \in 2..Len(r) :
                 SumTokens(lines, r[i][2], r[i - 1][3]) <= overlap

\* C3 witness: two consecutive chunks share lines that carry tokens, and
\* the shared tokens use the whole budget
C3_Witness ==
    /\ split_pc = "returned" /\ overlap >= 1
    /\ \E i \in 2..Len(split_result) :
         /\ split_result[i][2] <= split_result[i - 1][3]
         /\ SumTokens(Split(text), split_result[i][2],
                      split_result[i - 1][3]) = overlap

\* C21: for 0 <= overlap <= chunk_size every chunk's token count, len(text)//4
\* of the chunk text as stored in chunk.tokens, is at most chunk_size plus the
\* token count of one line of that chunk, and every chunk is a range of whole
\* lines.
C21_ChunkTokensWithinOneLine ==
    (split_pc = "returned" /\ 0 <= overlap /\ overlap <= chunk_size) =>
        LET r == split_result
            lines == Split(text)
        IN  \A i \in 1..Len(r) :
              /\ r[i][1] = Join(SubSeq(lines, r[i][2] + 1, r[i][3] + 1), <<NL>>)
              /\ \E j \in (r[i][2] + 1)..(r[i][3] + 1) :
                   count_tokens(r[i][1]) <= chunk_size + count_tokens(lines[j])

\* C30: for every chunk_size and overlap, the end lines of consecutive chunks
\* strictly increase and the start lines never decrease: each chunk contains
\* a line that no earlier chunk contains, and a text of n lines gives at most
\* n chunks.
C30_ChunksAdvance ==
    split_pc = "returned" =>
        LET r == split_result
        IN  /\ \A i \in 2..Len(r) :
                 r[i][3] > r[i - 1][3] /\ r[i][2] >= r[i - 1][2]
            /\ \A i \in 1..Len(r) :
                 \E j \in r[i][2]..r[i][3] :
                    \A k \in 1..(i - 1) : j < r[k][2] \/ j > r[k][3]
            /\ Len(r) <= NumLines(text)

\* C30 witness: with an overlap above the chunk size, three chunks of which
\* a later one starts where its predecessor started
C30_Witness ==
    /\ split_pc = "returned"
    /\ overlap > chunk_size
    /\ Len(split_result) >= 3
    /\ \E i \in 2..Len(split_result) :
         /\ split_result[i][2] = split_result[i - 1][2]
         /\ split_result[i][3] > split_result[i - 1][3]

\* C26: chunking a 1000-character file of 20-character lines with chunk_size
\* 50 and overlap 10 yields more than one chunk; every chunk after the first
\* starts strictly before the previous chunk's end line and never before the
\* first line of the file.
C26_ScenarioChunksOverlap ==
    (/\ split_pc = "returned"
     /\ chunk_size = Scenario.chunk_size
     /\ overlap = Scenario.overlap) =>
        LET r == split_result
        IN  /\ Len(r) > 1
            /\ \A i \in 2..Len(r) : r[i][2] < r[i - 1][3] /\ r[i][2] >= 0

\* C26 witness: the file of exactly 1000 characters, newlines included, has
\* been chunked with chunk_size 50 and overlap 10 into five or more chunks
C26_Witness ==
    /\ split_pc = "returned"
    /\ chunk_size = Scenario.chunk_size
    /\ overlap = Scenario.overlap
    /\ Len(text) = Scenario.chars
    /\ Len(split_result) >= 4
    /\ split_result[2][2] < split_result[1][3]

\* C4: the chunk_ids chunk_vfs returns are 0, 1, ..., N-1 in emission order,
\* and a file whose trimmed content is empty yields no chunk and uses no id
\* (the counter has advanced once per returned chunk).
C4_ChunkIdsDense ==
    chunker_pc = "returned" =>
        /\ \A i \in 1..Len(chunks) : chunks[i].chunk_id = i - 1
        /\ chunk_id_counter = Len(chunks)
        /\ \A f \in 1..Len(vfs) :
             IsBlank(Decode(vfs[f].data)) =>
                 \A i \in 1..Len(chunks) : chunks[i].file_path # vfs[f].path

\* C4 witness: a run over three files, the second blank, that returns chunks
\* of the first and of the third
C4_Witness ==
    /\ chunker_pc = "returned"
    /\ Len(vfs) = 3
    /\ IsBlank(Decode(vfs[2].data))
    /\ \E i, j \in 1..Len(chunks) :
         /\ chunks[i].file_path = vfs[1].path
         /\ chunks[j].file_path = vfs[3].path

\* the lines of the decoded file that a chunk was made from
LinesOfFile(chunk) ==
    LET f == CHOOSE i \in 1..Len(vfs) : vfs[i].path = chunk.file_path
    IN  Split(Decode(vfs[f].data))

\* C29: every chunk made from a file of n lines has
\* 1 <= start_line <= end_line <= n (1-indexed, inclusive), and its text is
\* lines start_line..end_line of the decoded file joined by newlines.
C29_ChunkIsLineRange ==
    \A i \in 1..Len(chunks \o file_chunks) :
        LET chunk == (chunks \o file_chunks)[i]
            lines == LinesOfFile(chunk)
        IN  /\ 1 <= chunk.start_line
            /\ chunk.start_line <= chunk.end_line
            /\ chunk.end_line <= Len(lines)
            /\ chunk.text = Join(SubSeq(lines, chunk.start_line,
                                        chunk.end_line), <<NL>>)

\* C29 witness: chunk_vfs has returned a chunk that starts after line 1 and
\* ends at the last line of its file, and a chunk of more than one line
C29_Witness ==
    /\ chunker_pc = "returned"
    /\ \E i \in 1..Len(chunks) :
         /\ chunks[i].start_line > 1
         /\ chunks[i].end_line = Len(LinesOfFile(chunks[i]))
    /\ \E i \in 1..Len(chunks) : chunks[i].end_line > chunks[i].start_line

-----------------------------------------------------------------------------
(* Clustering claims *)

\* C1: after cluster_chunks on a non-empty chunk list with unique chunk_ids,
\* every chunk_id is listed by exactly one returned cluster, exactly once,
\* the chunk's cluster_id is that cluster's cluster_id, and the clusters list
\* nothing but chunk_ids of the list (the clusters partition the chunks).
C1_ClustersPartitionChunks ==
    (/\ cl_pc = "returned"
     /\ cl_chunks # <<>>
     /\ \A i, j \in 1..Len(cl_chunks) :
          i # j => cl_chunks[i].chunk_id # cl_chunks[j].chunk_id)
    =>
    /\ \A i \in 1..Len(cl_chunks) :
         LET id == cl_chunks[i].chunk_id
             holders == { c \in 1..Len(clusters) :
                            \E j \in 1..Len(clusters[c].chunk_ids) :
                                clusters[c].chunk_ids[j] = id }
         IN  /\ Cardinality(holders) = 1
             /\ \A c \in holders :
                  /\ Cardinality({ j \in 1..Len(clusters[c].chunk_ids) :
                                     clusters[c].chunk_ids[j] = id }) = 1
                  /\ cl_chunks[i].cluster_id = <<clusters[c].cluster_id>>
    /\ \A c \in 1..Len(clusters) :
         \A j \in 1..Len(clusters[c].chunk_ids) :
             \E i \in 1..Len(cl_chunks) :
                 cl_chunks[i].chunk_id = clusters[c].chunk_ids[j]

\* C1 witness: three chunks with unique ids spread over two or more
\* clusters, one of which holds two chunks
C1_Witness ==
    /\ cl_pc = "returned"
    /\ Len(cl_chunks) = 3
    /\ \A i, j \in 1..3 : i # j => cl_chunks[i].chunk_id # cl_chunks[j].chunk_id
    /\ \E c, d \in 1..Len(clusters) :
         /\ Len(clusters[c].chunk_ids) = 2
         /\ Len(clusters[d].chunk_ids) = 1

\* C9: cluster_chunks returns exactly min(k, len(chunks)) clusters with
\* cluster_ids 0 .. min(k, len(chunks)) - 1 in ascending order; for the empty
\* chunk list it returns the empty list and the chunk list stays empty.
C9_EffectiveClusterCount ==
    cl_pc = "returned" =>
        LET n == Len(cl_chunks)
            expected == IF num_clusters <= n THEN num_clusters ELSE n
        IN  /\ Len(clusters) = expected
            /\ \A c \in 1..Len(clusters) : clusters[c].cluster_id = c - 1
            /\ (cl_pc = "returned" /\ n = 0) => clusters = <<>>

\* C9 witness: k exceeds the number of chunks, and one cluster per chunk is
\* returned
C9_Witness ==
    /\ cl_pc = "returned"
    /\ Len(cl_chunks) = 2
    /\ num_clusters > 2
    /\ Len(clusters) = 2

\* C10 (as claimed): for a non-empty chunk list no returned cluster has an
\* empty chunk_ids list, and when k exceeds the chunk count every cluster
\* holds exactly one chunk.
C10_NoEmptyCluster ==
    (cl_pc = "returned" /\ cl_chunks # <<>>) =>
        /\ \A c \in 1..Len(clusters) : clusters[c].chunk_ids # <<>>
        /\ num_clusters > Len(cl_chunks) =>
             \A c \in 1..Len(clusters) : Len(clusters[c].chunk_ids) = 1


\* C16: cluster_chunks with a method name other than "kmeans" or
\* "hierarchical" fails with a configuration error for every chunk list: it
\* returns no cluster list, and every chunk's cluster_id stays as it was
\* (None)
C16_UnknownMethodFails ==
    (method \notin { "kmeans", "hierarchical" } /\ cl_pc \notin { "call", "off" })
    => /\ cl_pc = "raised"
       /\ clusters = <<>>
       /\ \A i \in 1..Len(cl_chunks) : cl_chunks[i].cluster_id = None

-----------------------------------------------------------------------------
(* Archive container claims (SpecDocpack) *)

\* the set of (path, bytes) items of an Optional raw-file dict
RawItems(raw_files) ==
    IF raw_files = None THEN {}
    ELSE { raw_files[1][i] : i \in 1..Len(raw_files[1]) }

\* C5: write followed by read is the identity on the persisted model: a
\* load_docpack of the file that a completed save_docpack wrote returns the
\* same manifest, the same intent spec, the same chunks and the same clusters
\* in the same order with the same contents, and the same project summary
C5_WriteReadIdentity ==
    read_result.at = "done" =>
        /\ read_result.status = "ok"
        /\ read_result.docpack.manifest = docpack.manifest
        /\ read_result.docpack.intent_spec = docpack.intent_spec
        /\ read_result.docpack.chunks = docpack.chunks
        /\ read_result.docpack.clusters = docpack.clusters
        /\ read_result.docpack.project_summary = docpack.project_summary

\* C7: a reader never obtains an Archive from a partially written container:
\* a load_docpack while write is running, or after a write that failed
\* partway, either fails or returns the complete Archive that was being
\* written (every chunk, every cluster, and every raw file of an Archive
\* whose manifest says that raw files are included)
C7_NoPartialArchive ==
    (read_result.at \in {"writing", "failed"} /\ read_result.status = "ok") =>
        /\ read_result.docpack.manifest = docpack.manifest
        /\ read_result.docpack.intent_spec = docpack.intent_spec
        /\ { read_result.docpack.chunks[i] :
               i \in 1..Len(read_result.docpack.chunks) }
           = { docpack.chunks[i] : i \in 1..Len(docpack.chunks) }
        /\ { read_result.docpack.clusters[i] :
               i \in 1..Len(read_result.docpack.clusters) }
           = { docpack.clusters[i] : i \in 1..Len(docpack.clusters) }
        /\ read_result.docpack.project_summary = docpack.project_summary
        /\ docpack.manifest.includes_raw_files =>
               RawItems(read_result.docpack.raw_files)
               = RawItems(docpack.raw_files)
\* C11: raw files are materialized on read only when the manifest's
\* includes_raw_files flag is true: when the flag is false, read reads no
\* member of the raw/ namespace and the Archive it returns carries no raw
\* files, whatever the container holds under raw/ and whatever raw-file
\* map the Archive held when it was written
C11_RawFilesOnlyWhenFlagged ==
    (read_result.status = "ok"
     /\ ~read_result.docpack.manifest.includes_raw_files) =>
        /\ read_result.raw_read = <<>>
        /\ read_result.docpack.raw_files = None

\* a read returned an Archive whose manifest says that no raw files are
\* included from a container that holds raw/ records of the raw-file map
\* that the Archive in memory holds
C11_Witness ==
    /\ read_result.status = "ok"
    /\ ~docpack.manifest.includes_raw_files
    /\ docpack.raw_files # None
    /\ NamesUnder(zip_entries, RawDir) # <<>>
    /\ read_result.docpack.raw_files = None

\* C12: the record names sort in numeric id order: a read returns the
\* chunks in ascending chunk_id order and the clusters in ascending
\* cluster_id order
C12_ReadInAscendingIdOrder ==
    read_result.status = "ok" =>
        /\ \A i \in 1..(Len(read_result.docpack.chunks) - 1) :
              read_result.docpack.chunks[i].chunk_id
              < read_result.docpack.chunks[i + 1].chunk_id
        /\ \A i \in 1..(Len(read_result.docpack.clusters) - 1) :
              read_result.docpack.clusters[i].cluster_id
              < read_result.docpack.clusters[i + 1].cluster_id

\* C23: load_docpack returns an Archive only for a complete container: it
\* fails when the file is missing, when the manifest, intent or
\* project-summary record is missing, and when the container holds fewer
\* chunk or cluster records than the manifest's chunk_count and
\* cluster_count say.
C23_ReadRequiresCompleteContainer ==
    read_result.status = "ok" =>
        /\ zip_state = "finalized"
        /\ HasEntry(zip_entries, ManifestName)
        /\ HasEntry(zip_entries, IntentName)
        /\ HasEntry(zip_entries, SummaryName)
        /\ Len(NamesUnder(zip_entries, ChunksDir))
               >= read_result.docpack.manifest.chunk_count
        /\ Len(NamesUnder(zip_entries, ClustersDir))
               >= read_result.docpack.manifest.cluster_count

-----------------------------------------------------------------------------
(* Schema claims (SpecSchema) *)

\* the instance has the field that the key declares, with a value that is
\* valid for the declared type
PresentAndValid(item) ==
    /\ JHas(instance, CleanKey(item[1]))
    /\ TypeValid(infer_type(item[2]), JGet(instance, CleanKey(item[1])))

\* the instance lacks the field that the key declares, or has it as null
AbsentOrNull(item) ==
    \/ ~JHas(instance, CleanKey(item[1]))
    \/ JGet(instance, CleanKey(item[1])) = JNull

\* C8: the model that build_model compiles accepts an object only if every
\* field declared without the optional marker is present and type-valid,
\* and it accepts an object whose fields declared with a trailing '?' are
\* absent or null (or type-valid) when the other fields are present and
\* type-valid
C8_RequiredAndOptionalFields ==
    model_pc = "validated" =>
        /\ accepted =>
              \A i \in 1..Len(fields) :
                  ~EndsWithMarker(fields[i][1]) => PresentAndValid(fields[i])
        /\ (\A i \in 1..Len(fields) :
                IF EndsWithMarker(fields[i][1])
                THEN AbsentOrNull(fields[i]) \/ PresentAndValid(fields[i])
                ELSE PresentAndValid(fields[i]))
           => accepted
-----------------------------------------------------------------------------
(* Project summary claims (SpecProject) *)

\* a cluster without its centroid
WithoutCentroid(cluster) ==
    [cluster_id |-> cluster.cluster_id, chunk_ids |-> cluster.chunk_ids,
     summary |-> cluster.summary]

\* two argument lists agree on the cluster summaries (the clusters but for
\* their centroids), on the manifest's run metrics and on the project schema
SameProjectInputs(a, b) ==
    /\ Len(a.clusters) = Len(b.clusters)
    /\ \A i \in 1..Len(a.clusters) :
          WithoutCentroid(a.clusters[i]) = WithoutCentroid(b.clusters[i])
    /\ MetricsText(a.manifest) = MetricsText(b.manifest)
    /\ a.intent.project_schema = b.intent.project_schema

\* C6: two summarize_project calls that agree on the cluster summaries, the
\* manifest's run metrics and the intent's project schema hand the same
\* prompt and the same schema to the generation capability, whatever the
\* chunk texts and file paths, the manifest's provenance fields and the
\* cluster centroids are
C6_ProjectSummaryInputs ==
    (/\ project_calls[1].status # "none"
     /\ project_calls[2].status # "none"
     /\ SameProjectInputs(project_args[1], project_args[2]))
    => project_calls[1] = project_calls[2]
-----------------------------------------------------------------------------
(* Synthesis claims (SpecIntent) *)

\* the cluster of apply_intent's list with the given id
ClusterWithId(cluster_id) ==
    ai_clusters[CHOOSE i \in 1..Len(ai_clusters) :
                    ai_clusters[i].cluster_id = cluster_id]

\* the text of the chunk of apply_intent's list with the given id
TextOfChunk(chunk_id) ==
    ai_chunks[CHOOSE i \in 1..Len(ai_chunks) :
                  ai_chunks[i].chunk_id = chunk_id].text

\* the generation call returned an object that the compiled schema rejects
ReturnedNonconforming(call) ==
    /\ call.returned # None
    /\ ~ModelAccepts(call.schema, call.returned[1])

C17_UnrequestedLevelsAreNoOps ==
    /\ ai_intent.cluster_schema = None =>
          /\ \A n \in 1..Len(ai_calls) : ai_calls[n].level # "cluster"
          /\ \A i \in 1..Len(ai_clusters) : ai_clusters[i].summary = None
    /\ (ai_intent.project_schema = None \/ ~ai_intent.allow_global_summary) =>
          /\ \A n \in 1..Len(ai_calls) : ai_calls[n].level # "project"
          /\ ai_docpack # None => ai_docpack[1].project_summary = <<>>
    /\ (/\ ai_intent.cluster_schema = None
        /\ (ai_intent.project_schema = None \/ ~ai_intent.allow_global_summary))
       => ai_pc # "raised"

\* apply_intent returned for an intent that has a project schema but does
\* not allow a global summary, and no cluster schema
C17_Witness ==
    /\ ai_pc = "done"
    /\ ai_intent.cluster_schema = None
    /\ ai_intent.project_schema # None
    /\ ~ai_intent.allow_global_summary
    /\ ai_clusters # <<>>
    /\ ai_calls = <<>>
    /\ ai_docpack[1].project_summary = <<>>

\* C18: the project-level generation call starts only after the
\* cluster-level generation call of every cluster has returned and its
\* validated summary is stored on the cluster
C18_ProjectAfterClusters ==
    \A n \in 1..Len(ai_calls) :
        (ai_calls[n].level = "project" /\ ai_intent.cluster_schema # None) =>
            \A i \in 1..Len(ai_clusters) :
                \E m \in 1..(n - 1) :
                    /\ ai_calls[m].level = "cluster"
                    /\ ai_calls[m].cluster_id = ai_clusters[i].cluster_id
                    /\ ai_calls[m].returned # None
                    /\ ai_clusters[i].summary # None
                    /\ ai_clusters[i].summary =
                           ValidateJson(ai_intent.cluster_schema[1],
                                        ai_calls[m].returned[1])

\* the project-level call was made after two cluster-level calls
C18_Witness ==
    /\ Len(ai_clusters) = 2
    /\ Len(ai_calls) = 3
    /\ ai_calls[3].level = "project"

-----------------------------------------------------------------------------
(* Schema validation claims (SpecValidate) *)

\* C15: validate_schema fails for a value that is not a mapping, for an
\* empty mapping, and for every mapping on which build_model fails; it
\* succeeds exactly when the value is a non-empty mapping that build_model
\* compiles.
C15_ValidateSchemaIffCompiles ==
    vs_pc = "ended" =>
        /\ ~IsMapping(vs_schema) => vs_result[1] = "ValueError"
        /\ vs_schema = SDict(<<>>) => vs_result[1] = "ValueError"
        /\ (IsMapping(vs_schema) /\ BuildModelRaises(vs_schema[2]))
              => vs_result[1] = "ValueError"
        /\ vs_result = Returned(TRUE)
              <=> /\ IsMapping(vs_schema)
                  /\ vs_schema[2] # <<>>
                  /\ ~BuildModelRaises(vs_schema[2])

\* validate_schema has raised for a mapping whose own keys are all str and
\* whose nested schema has a key that is not
C15_Witness ==
    /\ vs_pc = "ended"
    /\ IsMapping(vs_schema)
    /\ \A i \in 1..Len(vs_schema[2]) : IsStrKey(vs_schema[2][i][1])
    /\ BuildModelRaises(vs_schema[2])
    /\ vs_result = ValueError("Invalid schema")

-----------------------------------------------------------------------------
(* Pipeline claims (SpecPipeline) *)

\* the intent file declares a schema that is not a mapping, is empty, or
\* does not compile
IntentFileInvalid ==
    SchemaEntryInvalid(pl_intent_yaml.cluster_schema)
        \/ SchemaEntryInvalid(pl_intent_yaml.project_schema)

\* C14: in run_pipeline an intent whose schema is invalid (not a mapping,
\* empty, or failing to compile) is rejected when the intent is loaded: the
\* run gets no further than the load and does no ingestion, embedding,
\* clustering or generation.
C14_InvalidIntentRejectedAtLoad ==
    IntentFileInvalid =>
        \A r \in Runs : pl_pc[r] \in {"load", "raised"} /\ pl_work[r] = {}

\* C20: two runs that produce equal chunk and cluster collections have equal
\* run metrics (file_count, chunk_count, cluster_count, total_tokens,
\* embedding_dim) in their manifests.
C20_MetricsFromChunksAndClusters ==
    (/\ pl_manifest[1] # None
     /\ pl_manifest[2] # None
     /\ pl_chunks[1] = pl_chunks[2]
     /\ pl_clusters[1] = pl_clusters[2])
        => pl_manifest[1] = pl_manifest[2]

-----------------------------------------------------------------------------
(* Pipeline run claims (SpecRun) *)

\* every chunk of the list carries a label
AllLabelled(cs) == \A i \in 1..Len(cs) : cs[i].cluster_id # None

\* between two states, nothing of a chunk but its cluster_id differs, and the
\* cluster_id only goes from None to a label, in the clustering stage
ChunkStep(r, i) ==
    LET a == pl_chunks[r][i]
        b == pl_chunks'[r][i]
    IN  /\ b = [a EXCEPT !.cluster_id = b.cluster_id]
        /\ b.cluster_id # a.cluster_id =>
               /\ a.cluster_id = None
               /\ b.cluster_id # None
               /\ pl_pc[r] = "cluster"

\* between two states, nothing of a cluster but its summary differs, and the
\* summary only goes from None to an object, in the synthesis stage
ClusterStep(r, i) ==
    LET a == pl_clusters[r][i]
        b == pl_clusters'[r][i]
    IN  /\ b = [a EXCEPT !.summary = b.summary]
        /\ b.summary # a.summary =>
               /\ a.summary = None
               /\ b.summary # None
               /\ pl_pc[r] = "apply"

SlotsStep ==
    \A r \in Runs :
        /\ pl_chunks[r] # <<>> =>
               /\ Len(pl_chunks'[r]) = Len(pl_chunks[r])
               /\ \A i \in 1..Len(pl_chunks[r]) : ChunkStep(r, i)
        /\ pl_clusters[r] # <<>> =>
               /\ Len(pl_clusters'[r]) = Len(pl_clusters[r])
               /\ \A i \in 1..Len(pl_clusters[r]) : ClusterStep(r, i)

\* before clustering has returned no chunk has a label, afterwards every one
LabelledByClustering ==
    \A r \in Runs :
        IF pl_manifest[r] = None
        THEN \A i \in 1..Len(pl_chunks[r]) : pl_chunks[r][i].cluster_id = None
        ELSE AllLabelled(pl_chunks[r])

\* C22: in a pipeline run a chunk's cluster_id changes once, from None to its
\* label, in the clustering stage; a cluster's summary changes at most once,
\* from None to the validated object, in the synthesis stage; no other field
\* of a chunk or cluster changes once the object exists, and the lists of
\* chunks and clusters keep their members.
C22_SlotsSetOnce == [][SlotsStep]_vars /\ []LabelledByClustering

C22_Witness ==
    /\ Len(pl_chunks[1]) = 2
    /\ AllLabelled(pl_chunks[1])
    /\ Len(pl_clusters[1]) = 2
    /\ pl_clusters[1][1].summary # None
    /\ pl_clusters[1][2].summary = None
    /\ pl_pc[1] = "apply"

\* every cluster of the list carries a summary
AllSummarized(ks) == \A i \in 1..Len(ks) : ks[i].summary # None

\* C24: the container is written only by a run that has chunked, clustered
\* (every chunk labelled, the manifest built) and synthesised (every cluster
\* summarised when the intent has a cluster schema); a run that raised, on an
\* embedding call, the clustering, a generation call or a schema that does
\* not compile, has written nothing and returns nothing.
C24_WriteOnlyAfterAllStages ==
    \A r \in Runs :
        /\ "write" \in pl_work[r] =>
               /\ pl_pc[r] = "done"
               /\ pl_manifest[r] # None
               /\ AllLabelled(pl_chunks[r])
               /\ pl_intent[r][1].cluster_schema # None =>
                      AllSummarized(pl_clusters[r])
        /\ pl_pc[r] = "raised" => "write" \notin pl_work[r]

C24_Witness ==
    /\ pl_pc[1] = "raised"
    /\ "generate" \in pl_work[1]
    /\ Len(pl_clusters[1]) = 2
    /\ pl_clusters[1][1].summary # None
    /\ "write" \notin pl_work[1]

\* the sum of the tokens of the first n chunks
RECURSIVE TokensOfFirst(_, _)
TokensOfFirst(cs, n) ==
    IF n = 0 THEN 0 ELSE TokensOfFirst(cs, n - 1) + cs[n].tokens

\* C28: in the Docpack a run returns, manifest.chunk_count is the number of
\* chunks, cluster_count the number of clusters, total_tokens the sum of the
\* chunks' tokens and embedding_dim the length of every chunk's embedding,
\* 0 when there is no chunk.
C28_ManifestCountsMatch ==
    \A r \in Runs :
        pl_pc[r] = "done" =>
            LET m == pl_manifest[r][1]
                cs == pl_chunks[r]
            IN  /\ m.chunk_count = Len(cs)
                /\ m.cluster_count = Len(pl_clusters[r])
                /\ m.total_tokens = TokensOfFirst(cs, Len(cs))
                /\ \A i \in 1..Len(cs) : Len(cs[i].embedding) = m.embedding_dim
                /\ cs = <<>> => m.embedding_dim = 0

C28_Witness ==
    /\ pl_pc[1] = "done"
    /\ Len(pl_vfs[1]) = 2
    /\ Len(pl_chunks[1]) = 1
    /\ Len(pl_chunks[1][1].embedding) = 2
    /\ pl_manifest[1][1].total_tokens = 1

-----------------------------------------------------------------------------
(* Ingest claims (SpecIngest) *)

-----------------------------------------------------------------------------
(* Concurrent chunk creation claims (SpecRace) *)

\* the ids given so far, by both threads
AllIds == cc_ids[1] \o cc_ids[2]

\* C25: when chunk creation on one Chunker runs concurrently for several
\* files, no two chunks receive the same chunk_id and, once every file is
\* chunked, no id has been skipped: the ids are 0..N-1.
C25_CounterAtomic ==
    /\ \A i, j \in 1..Len(AllIds) : i # j => AllIds[i] # AllIds[j]
    /\ (\A t \in Threads : cc_pc[t] = "returned") =>
           { AllIds[i] : i \in 1..Len(AllIds) } = 0..(Len(AllIds) - 1)

====
